---- MODULE Spec2Model ----
(***************************************************************************)
(* Model of summa-aggregation.                                             *)
(*                                                                         *)
(*   Spec      Orchestrator::create_aggregation_mst: the main task, the    *)
(*             distributor / executor / collector tasks, their bounded     *)
(*             mpsc channels and the shared cancellation token.            *)
(*   FairSpec  Spec with the fairness of the tokio scheduler.              *)
(*   TreeSpec  AggregationMerkleSumTree: new, get_entry, generate_proof,   *)
(*             verify_proof applied to bounded sets of mini trees.         *)
(*   HttpSpec  Executor::generate_tree against the mini tree server        *)
(*             (create_mst), a gateway or a URL nothing listens at.        *)
(*   JsonSpec  JsonMerkleSumTree::from_tree and to_mst on bounded trees.   *)
(*   SpawnerSpec  spawn_executor / terminate_executors of the Mock, Local  *)
(*             and Cloud spawners, calls and futures interleaved.          *)
(*                                                                         *)
(* Indices are 0-based as in the source; TLA+ sequences are 1-based, so a  *)
(* Rust vector v is a sequence s with v[i] = s[i + 1].                     *)
(***************************************************************************)
EXTENDS Integers, Sequences, FiniteSets, TLC

\* ------------------------------------------------------------------------
\* Bounds of the model
\* ------------------------------------------------------------------------
MaxCsv == 3          \* P = entry_csvs.len() ranges over 0..MaxCsv
MaxWorkers == 3      \* executor_count ranges over 1..MaxWorkers
MaxChannel == 2      \* CHANNEL_SIZE is 1 or MaxChannel
MaxMiniTrees == 4    \* K = mini_trees.len() ranges over 0..MaxMiniTrees
MaxMiniDepth == 2    \* the depth of a mini tree ranges over 1..MaxMiniDepth
MaxCalls == 2        \* generate_tree calls made on one executor
MaxUrls == 2         \* worker_node_url holds 1..MaxUrls URLs
MaxSpawns == 3       \* spawn_executor calls made on one spawner
MaxProofTrees == 6   \* mini trees of the trees whose proofs are inspected

min(a, b) == IF a <= b THEN a ELSE b

None == -1

\* .collect::<Vec<_>>(): the sequence with its elements computed.  Together
\* with CHOOSE r \in {e : x \in {v}} : TRUE, which computes v once and names
\* it x in e, it keeps the evaluation of the tree operators linear.
ToVec(f) == f \o <<>>

\* ------------------------------------------------------------------------
\* Merkle sum tree primitives (summa_backend::merkle_sum_tree)
\* ------------------------------------------------------------------------
N_CURRENCIES == 2    \* const generic, as in the tests of the repository
N_BYTES == 1         \* const generic; every balance must lie in [0, 2^(8*N_BYTES))

Currencies == 1 .. N_CURRENCIES

RECURSIVE Pow2(_)
Pow2(n) == IF n <= 0 THEN 1 ELSE 2 * Pow2(n - 1)

\* BigUint::from(2_usize).pow(8 * N_BYTES as u32)
RangeBound == Pow2(8 * N_BYTES)

\* Tokens of the hash model.  A hash is the bracketed serialisation of its
\* preimage, a flat sequence of integers, so that two hashes are equal
\* exactly when their preimages are (a collision-free Poseidon).
OPEN == -1
CLOSE == -2
LEAF == -3

\* Entry::zero_entry / the node the tree utility pairs an unpaired node with
ZeroNode == [hash |-> <<0>>, balances |-> ToVec([i \in Currencies |-> 0])]

\* Entry::compute_leaf: H(username, balances)
compute_leaf(entry) ==
    [hash |-> <<LEAF, entry.username>> \o entry.balances \o <<CLOSE>>,
     balances |-> entry.balances]

\* Node::middle_node_from_preimage: H(balances, left hash, right hash)
middle_node_from_preimage(pre) ==
    [hash |-> <<OPEN>> \o pre.balances \o pre.left \o pre.right \o <<CLOSE>>,
     balances |-> pre.balances]

\* the preimage of the parent of two nodes: balances add as field elements
\* (the balances of the model stay far below the BN256 scalar modulus, so
\* the field sum is the integer sum)
ParentPreimage(l, r) ==
    [balances |-> ToVec([i \in Currencies |-> l.balances[i] + r.balances[i]]),
     left |-> l.hash, right |-> r.hash]

\* build_middle_level: adjacent-pair reduction of one layer
build_middle_level(prev) ==
    ToVec([k \in 1 .. ((Len(prev) + 1) \div 2) |->
        middle_node_from_preimage(
            ParentPreimage(prev[2 * k - 1],
                           IF 2 * k <= Len(prev) THEN prev[2 * k] ELSE ZeroNode))])

RECURSIVE BuildLayers(_, _, _)
BuildLayers(tree, level, depth) ==
    IF level > depth THEN tree
    ELSE CHOOSE r \in {BuildLayers(next, level + 1, depth) :
                        next \in {Append(tree, build_middle_level(tree[level]))}} : TRUE

\* build_merkle_tree_from_leaves(leaves, depth, &mut nodes): the layers,
\* leaf layer first; the root is the single node of the last layer
build_merkle_tree_from_leaves(leaves, depth) ==
    CHOOSE r \in {[root |-> nodes[depth + 1][1], nodes |-> nodes] :
                  nodes \in {BuildLayers(<<leaves>>, 1, depth)}} : TRUE

\* (variant: .floor() in place of .ceil())
RECURSIVE FloorLog2(_)
FloorLog2(n) == IF n <= 1 THEN 0 ELSE 1 + FloorLog2(n \div 2)

\* (roots.len() as f64).log2().ceil() as usize
RECURSIVE CeilLog2(_)
CeilLog2(n) == IF n <= 1 THEN 0 ELSE 1 + CeilLog2((n + 1) \div 2)

\* MerkleSumTree::from_entries, what the worker builds from one CSV
from_entries(entries) ==
    CHOOSE r \in
        {[root |-> built.root, nodes |-> built.nodes,
          depth |-> CeilLog2(Len(entries)), entries |-> entries] :
         built \in {build_merkle_tree_from_leaves(
                        ToVec([k \in 1 .. Len(entries) |-> compute_leaf(entries[k])]),
                        CeilLog2(Len(entries)))}} : TRUE

\* Tree::get_middle_node_hash_preimage(level, index) of a node list
get_middle_node_hash_preimage(nodes, depth, level, index) ==
    IF level = 0 \/ level > depth \/ index >= Len(nodes[level + 1])
    THEN [kind |-> "Err"]
    ELSE LET below == nodes[level]
             left_child == below[2 * index + 1]
             right_child == IF 2 * index + 2 <= Len(below)
                            THEN below[2 * index + 2] ELSE ZeroNode
         IN  [kind |-> "Ok", preimage |-> ParentPreimage(left_child, right_child)]

\* Tree::get_leaf_node_hash_preimage(index): [username, balances...]
get_leaf_node_hash_preimage(t, index) ==
    IF index >= Len(t.entries) THEN [kind |-> "Err"]
    ELSE [kind |-> "Ok", preimage |-> t.entries[index + 1]]

\* the level loop of MerkleSumTree::generate_proof
RECURSIVE MiniProofLoop(_, _, _, _, _)
MiniProofLoop(t, level, current_index, path_indices, preimages) ==
    IF level >= t.depth
    THEN [kind |-> "Ok", path_indices |-> path_indices, preimages |-> preimages]
    ELSE LET position == current_index % 2
             sibling_index == current_index - position + (1 - position)
             fetch == sibling_index < Len(t.nodes[level + 1]) /\ level # 0
             pre == get_middle_node_hash_preimage(t.nodes, t.depth, level, sibling_index)
         IN  IF fetch /\ pre.kind = "Err" THEN [kind |-> "Err"]
             ELSE MiniProofLoop(t, level + 1, current_index \div 2,
                                Append(path_indices, position),
                                IF fetch THEN Append(preimages, pre.preimage)
                                ELSE preimages)

\* MerkleSumTree::generate_proof(index) of a mini tree
mini_generate_proof(t, index) ==
    LET sibling_leaf_index == IF index % 2 = 0 THEN index + 1 ELSE index - 1
        sibling_leaf == get_leaf_node_hash_preimage(t, sibling_leaf_index)
        walk == MiniProofLoop(t, 0, index, <<>>, <<>>)
    IN  IF index >= Len(t.nodes[1]) \/ sibling_leaf.kind = "Err" \/ walk.kind = "Err"
        THEN [kind |-> "Err"]
        ELSE [kind |-> "Ok",
              proof |-> [entry |-> t.entries[index + 1],
                         root |-> t.root,
                         sibling_leaf_node_hash_preimage |-> sibling_leaf.preimage,
                         sibling_middle_node_hash_preimages |-> walk.preimages,
                         path_indices |-> walk.path_indices]]

\* one step of Tree::verify_proof: the parent of node and its sibling,
\* ordered by the path index
VerifyStep(node, sibling_node, path_index) ==
    middle_node_from_preimage(
        IF path_index = 0 THEN ParentPreimage(node, sibling_node)
        ELSE ParentPreimage(sibling_node, node))

RECURSIVE VerifyLoop(_, _, _)
VerifyLoop(proof, i, node) ==
    IF i > Len(proof.path_indices) THEN node
    ELSE VerifyLoop(proof, i + 1,
                    VerifyStep(node,
                               middle_node_from_preimage(
                                   proof.sibling_middle_node_hash_preimages[i - 1]),
                               proof.path_indices[i]))

\* Tree::verify_proof(proof): recompute the root from the entry and the
\* sibling preimages; it indexes path_indices[0] and one middle preimage per
\* further path index, and aborts when one of them is missing
verify_proof(proof) ==
    IF Len(proof.path_indices) = 0
       \/ Len(proof.sibling_middle_node_hash_preimages) < Len(proof.path_indices) - 1
    THEN [kind |-> "panic"]
    ELSE LET first == VerifyStep(compute_leaf(proof.entry),
                                 compute_leaf(proof.sibling_leaf_node_hash_preimage),
                                 proof.path_indices[1])
             node == VerifyLoop(proof, 2, first)
         IN  [kind |-> "Ok",
              value |-> (proof.root.hash = node.hash
                         /\ proof.root.balances = node.balances)]

\* ------------------------------------------------------------------------
\* AggregationMerkleSumTree
\* ------------------------------------------------------------------------
ErrEmpty == "Empty mini tree inputs"
ErrRange == "Accumulated balance is not in the expected range, proof generation will fail!"
ErrMismatch == "Mismatch in generated mini tree counts and given CSV counts"

\* (variant: > in place of >=)
above_range(balance) == balance > RangeBound

\* balance_big_uint >= BigUint::from(2_usize).pow(8 * N_BYTES as u32)
out_of_range(balance) == balance >= RangeBound

\* balances_acc[i] += *balance, over the first n roots
RECURSIVE balances_acc(_, _, _)
balances_acc(roots, i, n) ==
    IF n = 0 THEN 0
    ELSE balances_acc(roots, i, n - 1) + roots[n].balances[i]

\* (variant: the root of the first mini tree taken for every mini tree)
mini_tree_roots_first(mini_trees) ==
    ToVec([k \in 1 .. Len(mini_trees) |-> mini_trees[1].root])

\* (variant: the roots taken in reverse order)
mini_tree_roots_reversed(mini_trees) ==
    ToVec([k \in 1 .. Len(mini_trees) |->
              mini_trees[Len(mini_trees) + 1 - k].root])

\* the mini_tree.root() of every mini tree
mini_tree_roots(mini_trees) ==
    ToVec([k \in 1 .. Len(mini_trees) |-> mini_trees[k].root])

\* (variant: the depths of the mini trees are not compared)
new_any_depth(mini_trees) ==
    CHOOSE r \in
      {IF trees = <<>> THEN [kind |-> "Err", msg |-> ErrEmpty]
       ELSE CHOOSE res \in
              {IF \E i \in Currencies :
                     out_of_range(balances_acc(roots, i, Len(roots)))
               THEN [kind |-> "Err", msg |-> ErrRange]
               ELSE CHOOSE ok \in
                      {[kind |-> "Ok",
                        tree |-> [root |-> built.root, nodes |-> built.nodes,
                                  depth |-> CeilLog2(Len(roots)),
                                  mini_trees |-> trees]] :
                       built \in {build_merkle_tree_from_leaves(
                                      roots, CeilLog2(Len(roots)))}} : TRUE :
               roots \in {mini_tree_roots(trees)}} : TRUE :
       trees \in {ToVec(mini_trees)}} : TRUE

\* AggregationMerkleSumTree::new(mini_trees, cryptocurrencies)
new(mini_trees) ==
    CHOOSE r \in
      {IF trees = <<>> THEN [kind |-> "Err", msg |-> ErrEmpty]
       ELSE IF \E k \in 1 .. Len(trees) : trees[k].depth # trees[1].depth
       THEN [kind |-> "panic"]
       ELSE CHOOSE res \in
              {IF \E i \in Currencies :
                     out_of_range(balances_acc(roots, i, Len(roots)))
               THEN [kind |-> "Err", msg |-> ErrRange]
               ELSE CHOOSE ok \in
                      {[kind |-> "Ok",
                        tree |-> [root |-> built.root, nodes |-> built.nodes,
                                  depth |-> CeilLog2(Len(roots)),
                                  mini_trees |-> trees]] :
                       built \in {build_merkle_tree_from_leaves(
                                      roots, CeilLog2(Len(roots)))}} : TRUE :
               roots \in {mini_tree_roots(trees)}} : TRUE :
       trees \in {ToVec(mini_trees)}} : TRUE

\* (variant: the entries of a mini tree counted with the depth of the
\* aggregation tree)
get_entry_location_own_depth(t, user_index) ==
    LET entries_per_mini_tree == Pow2(t.depth)
    IN  <<user_index \div entries_per_mini_tree, user_index % entries_per_mini_tree>>

\* AggregationMerkleSumTree::get_entry_location(user_index)
get_entry_location(t, user_index) ==
    LET entries_per_mini_tree == Pow2(t.mini_trees[1].depth)
    IN  <<user_index \div entries_per_mini_tree, user_index % entries_per_mini_tree>>

\* AggregationMerkleSumTree::get_entry(user_index); indexing a vector out
\* of its bounds aborts
get_entry(t, user_index) ==
    LET loc == get_entry_location(t, user_index)
    IN  IF loc[1] >= Len(t.mini_trees) THEN [kind |-> "panic"]
        ELSE IF loc[2] >= Len(t.mini_trees[loc[1] + 1].entries) THEN [kind |-> "panic"]
        ELSE [kind |-> "Ok", entry |-> t.mini_trees[loc[1] + 1].entries[loc[2] + 1]]

\* (variant: a path index is recorded only at a level that has a sibling)
RECURSIVE TopProofLoopSiblingOnly(_, _, _, _, _)
TopProofLoopSiblingOnly(t, level, current_index, path_indices, preimages) ==
    IF level >= t.depth
    THEN [kind |-> "Ok", path_indices |-> path_indices, preimages |-> preimages]
    ELSE LET position == current_index % 2
             sibling_index == current_index - position + (1 - position)
             in_range == sibling_index < Len(t.nodes[level + 1])
             fetch == in_range /\ level # 0
             pre == get_middle_node_hash_preimage(t.nodes, t.depth, level, sibling_index)
         IN  IF fetch /\ pre.kind = "Err" THEN [kind |-> "Err"]
             ELSE TopProofLoopSiblingOnly(t, level + 1, current_index \div 2,
                                          IF in_range THEN Append(path_indices, position)
                                          ELSE path_indices,
                                          IF fetch THEN Append(preimages, pre.preimage)
                                          ELSE preimages)

\* the level loop of AggregationMerkleSumTree::generate_proof
RECURSIVE TopProofLoop(_, _, _, _, _)
TopProofLoop(t, level, current_index, path_indices, preimages) ==
    IF level >= t.depth
    THEN [kind |-> "Ok", path_indices |-> path_indices, preimages |-> preimages]
    ELSE LET position == current_index % 2
             sibling_index == current_index - position + (1 - position)
             fetch == sibling_index < Len(t.nodes[level + 1]) /\ level # 0
             pre == get_middle_node_hash_preimage(t.nodes, t.depth, level, sibling_index)
         IN  IF fetch /\ pre.kind = "Err" THEN [kind |-> "Err"]
             ELSE TopProofLoop(t, level + 1, current_index \div 2,
                               Append(path_indices, position),
                               IF fetch THEN Append(preimages, pre.preimage)
                               ELSE preimages)

\* the index of the mini tree paired with mini_tree_index
sibling_mini_tree_index(mini_tree_index) ==
    IF mini_tree_index % 2 = 0 THEN mini_tree_index + 1 ELSE mini_tree_index - 1

\* AggregationMerkleSumTree::generate_proof(index)
generate_proof(t, index) ==
    LET loc == get_entry_location(t, index)
        mini_tree_index == loc[1]
        entry_index == loc[2]
        sibling_index == sibling_mini_tree_index(mini_tree_index)
    IN  IF mini_tree_index >= Len(t.mini_trees) \/ sibling_index >= Len(t.mini_trees)
        THEN [kind |-> "panic"]
        ELSE LET mini_tree == t.mini_trees[mini_tree_index + 1]
                 sibling_mini_tree == t.mini_trees[sibling_index + 1]
                 partial_proof == mini_generate_proof(mini_tree, entry_index)
                 sibling_pre == get_middle_node_hash_preimage(
                                    sibling_mini_tree.nodes, sibling_mini_tree.depth,
                                    sibling_mini_tree.depth, 0)
                 top == TopProofLoop(t, 0, mini_tree_index, <<>>, <<sibling_pre.preimage>>)
             IN  IF partial_proof.kind = "Err" THEN [kind |-> "Err"]
                 ELSE IF sibling_pre.kind = "Err" THEN [kind |-> "panic"]
                 ELSE IF top.kind = "Err" THEN [kind |-> "Err"]
                 ELSE [kind |-> "Ok",
                       proof |-> [entry |-> partial_proof.proof.entry,
                                  root |-> t.root,
                                  sibling_leaf_node_hash_preimage |->
                                      partial_proof.proof.sibling_leaf_node_hash_preimage,
                                  sibling_middle_node_hash_preimages |->
                                      partial_proof.proof.sibling_middle_node_hash_preimages
                                      \o top.preimages,
                                  path_indices |->
                                      partial_proof.proof.path_indices \o top.path_indices]]

\* ------------------------------------------------------------------------
\* JSON form of a Merkle sum tree (json_mst.rs)
\* ------------------------------------------------------------------------
\* A string is the sequence of its characters.
HexChars == <<"0", "1", "2", "3", "4", "5", "6", "7",
              "8", "9", "a", "b", "c", "d", "e", "f">>

\* the value of a digit in the given radix, None for any other character
DigitValue(c, radix) ==
    IF \E v \in 1 .. radix : HexChars[v] = c
    THEN (CHOOSE v \in 1 .. radix : HexChars[v] = c) - 1
    ELSE None

\* the digits of n in the given radix, most significant first ("0" for 0)
RECURSIVE to_str_radix(_, _)
to_str_radix(n, radix) ==
    IF n < radix THEN <<HexChars[n + 1]>>
    ELSE Append(to_str_radix(n \div radix, radix), HexChars[(n % radix) + 1])

\* BigUint::to_string
to_string(n) == to_str_radix(n, 10)

RECURSIVE DigitsValue(_, _, _)
DigitsValue(s, radix, n) ==
    IF n = 0 THEN 0
    ELSE radix * DigitsValue(s, radix, n - 1) + DigitValue(s[n], radix)

\* BigUint::parse_bytes(s, radix) / str::parse::<BigUint>: the empty string
\* and a string with a character that is no digit are rejected
parse_bytes(s, radix) ==
    IF s = <<>> \/ \E k \in 1 .. Len(s) : DigitValue(s[k], radix) = None
    THEN [kind |-> "Err"]
    ELSE [kind |-> "Ok", value |-> DigitsValue(s, radix, Len(s))]

\* width of the hexadecimal form of a field element (64 digits for the
\* 32 bytes of Fp, scaled with N_BYTES)
FP_HEX_DIGITS == 4 * N_BYTES

RECURSIVE ZeroPad(_, _)
ZeroPad(s, width) == IF Len(s) >= width THEN s ELSE ZeroPad(<<"0">> \o s, width)

\* format!("{:?}", fp) of a balance: "0x" and the zero-padded hex digits
fp_debug(b) == <<"0", "x">> \o ZeroPad(to_str_radix(b, 16), FP_HEX_DIGITS)

\* format!("{:?}", node.hash): "0x" and the digits of the hash, which the
\* model keeps as the serialised preimage
hash_debug(h) == [prefix |-> <<"0", "x">>, digits |-> h]

\* parse_fp_from_hex: hex_str[2..] parsed in radix 16, unwrapped
parse_fp_from_hex(hex_str) ==
    LET bigint == parse_bytes(SubSeq(hex_str, 3, Len(hex_str)), 16)
    IN  IF bigint.kind = "Err" THEN [kind |-> "panic"]
        ELSE [kind |-> "Ok", value |-> bigint.value]

\* parse_fp_from_hex applied to a hash
parse_hash_from_hex(hex) == [kind |-> "Ok", value |-> hex.digits]

\* convert_node_to_json
convert_node_to_json(node) ==
    [hash |-> hash_debug(node.hash),
     balances |-> ToVec([i \in 1 .. Len(node.balances) |-> fp_debug(node.balances[i])])]

\* JsonNode::to_node / Executor::convert_json_to_node: a balance that is no
\* hex string, or a number of balances other than N_CURRENCIES, aborts
to_node(json_node) ==
    IF \/ Len(json_node.balances) # N_CURRENCIES
       \/ \E i \in 1 .. Len(json_node.balances) :
             parse_fp_from_hex(json_node.balances[i]).kind = "panic"
    THEN [kind |-> "panic"]
    ELSE [kind |-> "Ok",
          node |-> [hash |-> parse_hash_from_hex(json_node.hash).value,
                    balances |-> ToVec([i \in Currencies |->
                                    parse_fp_from_hex(json_node.balances[i]).value])]]

\* JsonEntry::from_entry
from_entry(entry) ==
    [username |-> entry.username,
     balances |-> ToVec([i \in 1 .. Len(entry.balances) |-> to_string(entry.balances[i])])]

\* JsonEntry::to_entry, and the same conversion in create_mst and in
\* generate_tree: balances[i] = balance.parse::<BigUint>().unwrap() into an
\* array of N_CURRENCIES zeros; a string that does not parse and an index
\* past the array abort, missing balances stay zero
to_entry(json_entry) ==
    IF \/ Len(json_entry.balances) > N_CURRENCIES
       \/ \E i \in 1 .. Len(json_entry.balances) :
             parse_bytes(json_entry.balances[i], 10).kind = "Err"
    THEN [kind |-> "panic"]
    ELSE [kind |-> "Ok",
          entry |-> [username |-> json_entry.username,
                     balances |-> ToVec([i \in Currencies |->
                                     IF i <= Len(json_entry.balances)
                                     THEN parse_bytes(json_entry.balances[i], 10).value
                                     ELSE 0])]]

\* the Cryptocurrency descriptors to_mst gives every rebuilt tree
DummyCryptocurrencies ==
    ToVec([i \in Currencies |-> [name |-> "Dummy", chain |-> "ETH"]])

\* MerkleSumTree::from_params: the tree of the given parts, nothing rehashed
from_params(root, nodes, depth, entries, cryptocurrencies, is_sorted) ==
    [kind |-> "Ok",
     tree |-> [root |-> root, nodes |-> nodes, depth |-> depth, entries |-> entries,
               cryptocurrencies |-> cryptocurrencies, is_sorted |-> is_sorted]]

\* JsonMerkleSumTree::from_tree
from_tree(tree) ==
    [root |-> convert_node_to_json(tree.root),
     nodes |-> ToVec([l \in 1 .. Len(tree.nodes) |->
                  ToVec([k \in 1 .. Len(tree.nodes[l]) |->
                      convert_node_to_json(tree.nodes[l][k])])]),
     depth |-> tree.depth,
     entries |-> ToVec([k \in 1 .. Len(tree.entries) |-> from_entry(tree.entries[k])]),
     is_sorted |-> FALSE]

\* the node layers of a JSON tree converted back, or "panic"
json_nodes_ok(json) ==
    /\ to_node(json.root).kind = "Ok"
    /\ \A l \in 1 .. Len(json.nodes) :
       \A k \in 1 .. Len(json.nodes[l]) : to_node(json.nodes[l][k]).kind = "Ok"

json_nodes(json) ==
    ToVec([l \in 1 .. Len(json.nodes) |->
        ToVec([k \in 1 .. Len(json.nodes[l]) |-> to_node(json.nodes[l][k]).node])])

\* JsonMerkleSumTree::to_mst
to_mst(json) ==
    IF \/ ~json_nodes_ok(json)
       \/ \E k \in 1 .. Len(json.entries) : to_entry(json.entries[k]).kind = "panic"
    THEN [kind |-> "panic"]
    ELSE from_params(to_node(json.root).node,
                     json_nodes(json),
                     json.depth,
                     ToVec([k \in 1 .. Len(json.entries) |-> to_entry(json.entries[k]).entry]),
                     DummyCryptocurrencies,
                     json.is_sorted)

VARIABLES
    entry_csvs_len,        \* P, self.entry_csvs.len()
    executor_count,        \* the argument of create_aggregation_mst
    channel_size,          \* capacity of every mpsc channel of the run
    main_pc,               \* position of the create_aggregation_mst future
    spawned,               \* executors spawned so far (loop variable i)
    dist,                  \* distributor task i: [pc, next, hold]
    exec,                  \* executor task i: [pc, cur]
    coll,                  \* collector task i: [pc, trees]
    entries_ch,            \* entries channel i: queue of parsed CSVs
    tree_ch,               \* tree channel i: queue of mini trees
    cancel_token,          \* CancellationToken: TRUE once cancelled
    ordered_tree_results,  \* vec![None; P] filled at the collectors' join
    terminate_calls,       \* number of terminate_executors calls
    csv_failed,            \* history: a CSV could not be parsed
    worker_failed,         \* history: a generate_tree call failed
    result,                \* the value create_aggregation_mst returns
    mini_trees_in,         \* TreeSpec: the mini trees given to new
    tree_result,           \* TreeSpec: what new returned
    query,                 \* TreeSpec: the last operation on the tree
    server,                \* HttpSpec: what answers at the URL of the executor
    calls_made,            \* HttpSpec: generate_tree calls made so far
    call,                  \* HttpSpec: the generate_tree call under way
    served,                \* HttpSpec: the requests create_mst has handled
    round_trip,            \* JsonSpec: a tree and from_tree(tree).to_mst()
    spawner,               \* SpawnerSpec: kind, service_info, worker_node_url
    worker_counter,        \* SpawnerSpec: the AtomicUsize of the spawner
    futures,               \* SpawnerSpec: the spawn_executor calls made
    service,               \* SpawnerSpec: the containers or swarm service, the Docker requests
    compose_call,          \* ComposeSpec: a get_specs_from_compose call
    concurrent             \* ConcurrentSpec: two generate_tree calls on one Executor

orch_vars == <<entry_csvs_len, executor_count, channel_size, main_pc, spawned,
               dist, exec, coll, entries_ch, tree_ch, cancel_token,
               ordered_tree_results, terminate_calls, csv_failed,
               worker_failed, result>>

tree_vars == <<mini_trees_in, tree_result, query>>

http_vars == <<server, calls_made, call, served, round_trip>>

spawner_vars == <<spawner, worker_counter, futures, service>>

util_vars == <<compose_call, concurrent>>

vars == <<orch_vars, tree_vars, http_vars, spawner_vars, util_vars>>

\* ------------------------------------------------------------------------
\* Orchestrator
\* ------------------------------------------------------------------------
Workers == 0 .. (MaxWorkers - 1)

\* (variant: one executor per requested worker)
actual_number_of_workers_uncapped == executor_count

\* let actual_number_of_workers = min(executor_count, self.entry_csvs.len());
actual_number_of_workers == min(executor_count, entry_csvs_len)

\* let entries_per_executor = self.entry_csvs.len() / executor_count;
entries_per_executor == entry_csvs_len \div executor_count

\* (variant: every executor takes total_tasks / total_executors tasks)
calculate_task_range_even(executor_index, total_executors) ==
    LET base_tasks_per_executor == entry_csvs_len \div total_executors
    IN  <<executor_index * base_tasks_per_executor,
          min((executor_index + 1) * base_tasks_per_executor, entry_csvs_len)>>

\* Orchestrator::calculate_task_range
calculate_task_range(executor_index, total_executors) ==
    LET total_tasks == entry_csvs_len
        base_tasks_per_executor == total_tasks \div total_executors
        extra_tasks == total_tasks % total_executors
        start == executor_index * base_tasks_per_executor
                 + min(executor_index, extra_tasks)
        end == (executor_index + 1) * base_tasks_per_executor
               + min(executor_index + 1, extra_tasks)
    IN  <<start, min(end, total_tasks)>>

NoTask == [pc |-> "none", next |-> 0, last |-> 0]
NoExec == [pc |-> "none", cur |-> None]
NoColl == [pc |-> "none", trees |-> <<>>]

OrchInit ==
    /\ entry_csvs_len \in 0 .. MaxCsv
    /\ executor_count \in 1 .. MaxWorkers
    /\ channel_size \in {1, MaxChannel}
    /\ main_pc = "spawn"
    /\ spawned = 0
    /\ dist = [i \in Workers |-> NoTask]
    /\ exec = [i \in Workers |-> NoExec]
    /\ coll = [i \in Workers |-> NoColl]
    /\ entries_ch = [i \in Workers |-> <<>>]
    /\ tree_ch = [i \in Workers |-> <<>>]
    /\ cancel_token = FALSE
    /\ ordered_tree_results = <<>>
    /\ terminate_calls = 0
    /\ csv_failed = FALSE
    /\ worker_failed = FALSE
    /\ result = [kind |-> "pending"]

\* The rows of CSV file j (two users with small balances) and the mini tree
\* the worker builds from them
CsvEntries(j) ==
    <<[username |-> 2 * j, balances |-> ToVec([i \in Currencies |-> 1])],
      [username |-> 2 * j + 1, balances |-> ToVec([i \in Currencies |-> 2])]>>

CsvTree(j) == from_entries(CsvEntries(j))

Spawned(i) == i \in Workers /\ i < spawned

\* entries_tx of executor i is owned by its distributor task and dropped
\* when that task ends; entries_rx and tree_tx are owned by its executor
\* task and dropped when that task ends.
entries_tx_dropped(i) == dist[i].pc = "done"

entries_rx_dropped(i) == exec[i].pc = "done"

\* (variant: the main task keeps a clone of the sender until it returns)
tree_tx_kept_by_main(i) == exec[i].pc = "done" /\ main_pc = "done"

tree_tx_dropped(i) == exec[i].pc = "done"

\* tree_rx of executor i is owned by the main task (in result_collectors),
\* then by collector i: it is dropped when the collector ends, or when the
\* main task ends before it has spawned the collector
tree_rx_dropped(i) ==
    \/ coll[i].pc = "done"
    \/ main_pc = "done" /\ coll[i].pc = "none"

\* (variant: the tasks of the next executor are started before its
\* spawn_executor call has completed)
MainSpawnExecutorEarly ==
    /\ main_pc = "spawn"
    /\ spawned < actual_number_of_workers
    /\ exec' = [i \in Workers |->
                   IF i <= spawned + 1 /\ i < actual_number_of_workers
                      /\ exec[i].pc = "none"
                   THEN [pc |-> "recv", cur |-> None] ELSE exec[i]]
    /\ dist' = [i \in Workers |->
                   IF i <= spawned + 1 /\ i < actual_number_of_workers
                      /\ dist[i].pc = "none"
                   THEN [pc |-> "parse",
                         next |-> calculate_task_range(i, executor_count)[1],
                         last |-> calculate_task_range(i, executor_count)[2]]
                   ELSE dist[i]]
    /\ spawned' = spawned + 1
    /\ UNCHANGED <<entry_csvs_len, executor_count, channel_size, main_pc, coll,
                   entries_ch, tree_ch, cancel_token, ordered_tree_results,
                   terminate_calls, csv_failed, worker_failed, result, util_vars, tree_vars,
                   http_vars, spawner_vars>>

\* One iteration of the spawn loop: spawn_executor().await, then the
\* executor task and the distributor task of executor i are spawned.
MainSpawnExecutor ==
    /\ main_pc = "spawn"
    /\ executor_count # 0
    /\ spawned < actual_number_of_workers
    /\ LET i == spawned
           range == calculate_task_range(i, executor_count)
       IN  /\ exec' = [exec EXCEPT ![i] = [pc |-> "recv", cur |-> None]]
           /\ dist' = [dist EXCEPT ![i] =
                          [pc |-> IF range[1] < range[2] THEN "parse" ELSE "done",
                           next |-> range[1], last |-> range[2]]]
    /\ spawned' = spawned + 1
    /\ UNCHANGED <<entry_csvs_len, executor_count, channel_size, main_pc, coll,
                   entries_ch, tree_ch, cancel_token, ordered_tree_results,
                   terminate_calls, csv_failed, worker_failed, result, util_vars, tree_vars,
                   http_vars, spawner_vars>>

\* let entries_per_executor = self.entry_csvs.len() / executor_count with
\* executor_count = 0: the integer division aborts the call
MainDivideByZero ==
    /\ main_pc = "spawn"
    /\ executor_count = 0
    /\ main_pc' = "done"
    /\ result' = [kind |-> "panic"]
    /\ UNCHANGED <<entry_csvs_len, executor_count, channel_size, spawned, dist,
                   exec, coll, entries_ch, tree_ch, cancel_token,
                   ordered_tree_results, terminate_calls, csv_failed, worker_failed,
                   util_vars, tree_vars, http_vars, spawner_vars>>

\* self.executor_spawner.spawn_executor().await where the future of the
\* spawner aborts (LocalSpawner: rx.await.expect(..) after a container
\* that could not be created): the abort unwinds create_aggregation_mst,
\* result_collectors is dropped, the tasks already spawned run on
MainSpawnExecutorPanics ==
    /\ main_pc = "spawn"
    /\ executor_count # 0
    /\ spawned < actual_number_of_workers
    /\ main_pc' = "done"
    /\ result' = [kind |-> "panic"]
    /\ UNCHANGED <<entry_csvs_len, executor_count, channel_size, spawned, dist,
                   exec, coll, entries_ch, tree_ch, cancel_token,
                   ordered_tree_results, terminate_calls, csv_failed, worker_failed,
                   util_vars, tree_vars, http_vars, spawner_vars>>

\* Distributor i parses the next file of its slice; a parse error cancels
\* the run and ends the task (entries_tx is dropped).
DistParse(i) ==
    /\ dist[i].pc = "parse"
    /\ \E ok \in BOOLEAN :
        IF ok
        THEN /\ dist' = [dist EXCEPT ![i].pc = "send"]
             /\ UNCHANGED <<cancel_token, csv_failed>>
        ELSE /\ dist' = [dist EXCEPT ![i].pc = "done"]
             /\ cancel_token' = TRUE
             /\ csv_failed' = TRUE
    /\ UNCHANGED <<entry_csvs_len, executor_count, channel_size, main_pc, spawned,
                   exec, coll, entries_ch, tree_ch, ordered_tree_results,
                   terminate_calls, worker_failed, result,
                   util_vars, tree_vars, http_vars, spawner_vars>>

\* Distributor i in its select!: the cancelled() branch ends the task, the
\* send branch either fails (receiver dropped: cancel and end) or enqueues
\* the batch when the channel has room.
DistSend(i) ==
    /\ dist[i].pc = "send"
    /\ \/ /\ cancel_token
          /\ dist' = [dist EXCEPT ![i].pc = "done"]
          /\ UNCHANGED <<entries_ch, cancel_token>>
       \/ /\ entries_rx_dropped(i)
          /\ dist' = [dist EXCEPT ![i].pc = "done"]
          /\ cancel_token' = TRUE
          /\ UNCHANGED entries_ch
       \/ /\ ~entries_rx_dropped(i)
          /\ Len(entries_ch[i]) < channel_size
          /\ entries_ch' = [entries_ch EXCEPT ![i] = Append(@, dist[i].next)]
          /\ dist' = [dist EXCEPT ![i] =
                         [pc |-> IF dist[i].next + 1 < dist[i].last
                                 THEN "parse" ELSE "done",
                          next |-> dist[i].next + 1, last |-> dist[i].last]]
          /\ UNCHANGED cancel_token
    /\ UNCHANGED <<entry_csvs_len, executor_count, channel_size, main_pc, spawned,
                   exec, coll, tree_ch, ordered_tree_results, terminate_calls,
                   csv_failed, worker_failed, result,
                   util_vars, tree_vars, http_vars, spawner_vars>>

\* (variant: the task takes the next batch while the tree of the previous
\* one still waits to be sent)
ExecRecvBeforeSend(i) ==
    /\ exec[i].pc \in {"recv", "send"}
    /\ \/ /\ cancel_token
          /\ exec' = [exec EXCEPT ![i] = [pc |-> "done", cur |-> None]]
          /\ UNCHANGED entries_ch
       \/ /\ entries_ch[i] = <<>>
          /\ entries_tx_dropped(i)
          /\ exec' = [exec EXCEPT ![i] = [pc |-> "done", cur |-> None]]
          /\ UNCHANGED entries_ch
       \/ /\ entries_ch[i] # <<>>
          /\ exec' = [exec EXCEPT ![i] = [pc |-> "generate", cur |-> Head(entries_ch[i])]]
          /\ entries_ch' = [entries_ch EXCEPT ![i] = Tail(@)]
    /\ UNCHANGED <<entry_csvs_len, executor_count, channel_size, main_pc, spawned,
                   dist, coll, tree_ch, cancel_token, ordered_tree_results,
                   terminate_calls, csv_failed, worker_failed, result,
                   util_vars, tree_vars, http_vars, spawner_vars>>

\* Executor task i in its select!: recv() yields a batch, or None once the
\* channel is empty and its sender dropped; the cancelled() branch ends the
\* task.  On success the generate_tree request is issued.
ExecRecv(i) ==
    /\ exec[i].pc = "recv"
    /\ \/ /\ cancel_token
          /\ exec' = [exec EXCEPT ![i] = [pc |-> "done", cur |-> None]]
          /\ UNCHANGED entries_ch
       \/ /\ entries_ch[i] = <<>>
          /\ entries_tx_dropped(i)
          /\ exec' = [exec EXCEPT ![i] = [pc |-> "done", cur |-> None]]
          /\ UNCHANGED entries_ch
       \/ /\ entries_ch[i] # <<>>
          /\ exec' = [exec EXCEPT ![i] = [pc |-> "generate", cur |-> Head(entries_ch[i])]]
          /\ entries_ch' = [entries_ch EXCEPT ![i] = Tail(@)]
    /\ UNCHANGED <<entry_csvs_len, executor_count, channel_size, main_pc, spawned,
                   dist, coll, tree_ch, cancel_token, ordered_tree_results,
                   terminate_calls, csv_failed, worker_failed, result,
                   util_vars, tree_vars, http_vars, spawner_vars>>

\* executor.generate_tree(entries).await returns: Ok(tree) or Err(e); the
\* error cancels the run and ends the task.
ExecGenerate(i) ==
    /\ exec[i].pc = "generate"
    /\ \E ok \in BOOLEAN :
        IF ok
        THEN /\ exec' = [exec EXCEPT ![i].pc = "send"]
             /\ UNCHANGED <<cancel_token, worker_failed>>
        ELSE /\ exec' = [exec EXCEPT ![i] = [pc |-> "done", cur |-> None]]
             /\ cancel_token' = TRUE
             /\ worker_failed' = TRUE
    /\ UNCHANGED <<entry_csvs_len, executor_count, channel_size, main_pc, spawned,
                   dist, coll, entries_ch, tree_ch, ordered_tree_results,
                   terminate_calls, csv_failed, result,
                   util_vars, tree_vars, http_vars, spawner_vars>>

\* tree_tx.send(processed_task).await: an error (receiver dropped) cancels
\* and ends the task; otherwise the tree is enqueued when there is room.
ExecSend(i) ==
    /\ exec[i].pc = "send"
    /\ IF tree_rx_dropped(i)
       THEN /\ exec' = [exec EXCEPT ![i] = [pc |-> "done", cur |-> None]]
            /\ cancel_token' = TRUE
            /\ UNCHANGED tree_ch
       ELSE /\ Len(tree_ch[i]) < channel_size
            /\ tree_ch' = [tree_ch EXCEPT ![i] = Append(@, exec[i].cur)]
            /\ exec' = [exec EXCEPT ![i] = [pc |-> "recv", cur |-> None]]
            /\ UNCHANGED cancel_token
    /\ UNCHANGED <<entry_csvs_len, executor_count, channel_size, main_pc, spawned,
                   dist, coll, entries_ch, ordered_tree_results, terminate_calls,
                   csv_failed, worker_failed, result,
                   util_vars, tree_vars, http_vars, spawner_vars>>

\* After the spawn loop the collector tasks are spawned and the main task
\* awaits join_all.
MainStartCollectors ==
    /\ main_pc = "spawn"
    /\ executor_count # 0
    /\ spawned = actual_number_of_workers
    /\ coll' = [i \in Workers |->
                   IF i < spawned THEN [pc |-> "recv", trees |-> <<>>] ELSE coll[i]]
    /\ main_pc' = "join"
    /\ UNCHANGED <<entry_csvs_len, executor_count, channel_size, spawned, dist,
                   exec, entries_ch, tree_ch, cancel_token, ordered_tree_results,
                   terminate_calls, csv_failed, worker_failed, result,
                   util_vars, tree_vars, http_vars, spawner_vars>>

\* (variant: the collector takes the newest tree of the channel first)
CollRecvNewest(i) ==
    /\ coll[i].pc = "recv"
    /\ \/ /\ tree_ch[i] # <<>>
          /\ coll' = [coll EXCEPT ![i].trees = Append(@, tree_ch[i][Len(tree_ch[i])])]
          /\ tree_ch' = [tree_ch EXCEPT ![i] = SubSeq(@, 1, Len(@) - 1)]
       \/ /\ tree_ch[i] = <<>>
          /\ tree_tx_dropped(i)
          /\ coll' = [coll EXCEPT ![i].pc = "done"]
          /\ UNCHANGED tree_ch
    /\ UNCHANGED <<entry_csvs_len, executor_count, channel_size, main_pc, spawned,
                   dist, exec, entries_ch, cancel_token, ordered_tree_results,
                   terminate_calls, csv_failed, worker_failed, result,
                   util_vars, tree_vars, http_vars, spawner_vars>>

\* Collector i: while let Some(result) = tree_rx.recv().await; recv yields
\* None once the channel is empty and tree_tx dropped (executor task ended).
CollRecv(i) ==
    /\ coll[i].pc = "recv"
    /\ \/ /\ tree_ch[i] # <<>>
          /\ coll' = [coll EXCEPT ![i].trees = Append(@, Head(tree_ch[i]))]
          /\ tree_ch' = [tree_ch EXCEPT ![i] = Tail(@)]
       \/ /\ tree_ch[i] = <<>>
          /\ tree_tx_dropped(i)
          /\ coll' = [coll EXCEPT ![i].pc = "done"]
          /\ UNCHANGED tree_ch
    /\ UNCHANGED <<entry_csvs_len, executor_count, channel_size, main_pc, spawned,
                   dist, exec, entries_ch, cancel_token, ordered_tree_results,
                   terminate_calls, csv_failed, worker_failed, result,
                   util_vars, tree_vars, http_vars, spawner_vars>>

\* (variant: the slices are placed in the reverse order of the executors)
result_start_reversed(index) == (spawned - 1 - index) * entries_per_executor

\* (variant: the results of collector index start where the next
\* collector's should)
result_start_next(index) == (index + 1) * entries_per_executor

\* where the results of collector index start in ordered_tree_results
result_start(index) == index * entries_per_executor

\* ordered_tree_results[start + i] = Some(res.clone()) for the results of
\* executor index, then of the executors after it
RECURSIVE PlaceResults(_, _, _)
PlaceResults(ordered, index, n) ==
    IF index >= n THEN ordered
    ELSE LET start == result_start(index)
             trees == coll[index].trees
         IN  PlaceResults([k \in 0 .. (entry_csvs_len - 1) |->
                              IF k >= start /\ k - start < Len(trees)
                              THEN trees[k - start + 1] ELSE ordered[k]],
                          index + 1, n)

\* a write past the end of ordered_tree_results aborts
PlaceOutOfBounds ==
    \E index \in Workers :
        /\ index < spawned
        /\ coll[index].trees # <<>>
        /\ result_start(index) + Len(coll[index].trees) - 1 >= entry_csvs_len

\* (variant: the collectors are spawned but not awaited)
collectors_spawned == \A i \in Workers : i < spawned => coll[i].pc # "none"

\* join_all(all_tree_responses).await has returned
collectors_joined == \A i \in Workers : i < spawned => coll[i].pc = "done"

\* join_all returns: the results are placed and terminate_executors is called
MainJoin ==
    /\ main_pc = "join"
    /\ collectors_joined
    /\ IF PlaceOutOfBounds
       THEN /\ main_pc' = "done"
            /\ result' = [kind |-> "panic"]
            /\ UNCHANGED <<ordered_tree_results, terminate_calls>>
       ELSE /\ ordered_tree_results' =
                   PlaceResults([k \in 0 .. (entry_csvs_len - 1) |-> None], 0, spawned)
            /\ terminate_calls' = terminate_calls + 1
            /\ main_pc' = "terminate"
            /\ UNCHANGED result
    /\ UNCHANGED <<entry_csvs_len, executor_count, channel_size, spawned, dist,
                   exec, coll, entries_ch, tree_ch, cancel_token, csv_failed,
                   worker_failed,
                   util_vars, tree_vars, http_vars, spawner_vars>>

\* ordered_tree_results.into_iter().flatten().collect()
RECURSIVE Flatten(_, _)
Flatten(ordered, k) ==
    IF k >= entry_csvs_len THEN <<>>
    ELSE (IF ordered[k] = None THEN <<>> ELSE <<ordered[k]>>) \o Flatten(ordered, k + 1)

all_merkle_sum_tree == Flatten(ordered_tree_results, 0)

\* (variant: only a surplus of mini trees is an error)
count_surplus == Len(all_merkle_sum_tree) > entry_csvs_len

\* (variant: an empty list of mini trees is a mismatch as well)
count_mismatch_or_empty ==
    Len(all_merkle_sum_tree) # entry_csvs_len \/ all_merkle_sum_tree = <<>>

\* if all_merkle_sum_tree.len() != self.entry_csvs.len()
count_mismatch == Len(all_merkle_sum_tree) # entry_csvs_len

\* terminate_executors().await returns: the count check, then
\* AggregationMerkleSumTree::new on the mini trees
MainFinish ==
    /\ main_pc = "terminate"
    /\ main_pc' = "done"
    /\ result' = IF count_mismatch
                 THEN [kind |-> "Err", msg |-> ErrMismatch]
                 ELSE new([k \in 1 .. Len(all_merkle_sum_tree) |->
                              CsvTree(all_merkle_sum_tree[k])])
    /\ UNCHANGED <<entry_csvs_len, executor_count, channel_size, spawned, dist,
                   exec, coll, entries_ch, tree_ch, cancel_token,
                   ordered_tree_results, terminate_calls, csv_failed, worker_failed,
                   util_vars, tree_vars, http_vars, spawner_vars>>

\* ------------------------------------------------------------------------
\* Operations of an AggregationMerkleSumTree on bounded inputs
\* ------------------------------------------------------------------------
\* the balances an entry of a mini tree may carry in the first currency
BalanceChoices == {1, 28, 100}

\* The mini trees given to new: n trees of depth d, the last one of depth
\* d_last; the users of the first tree hold b_first, the others b_rest.
\* The entries of mini tree j: 2^d users, named 100 * j + e
MiniEntries(j, d, b) ==
    ToVec([k \in 1 .. Pow2(d) |->
        [username |-> 100 * j + (k - 1),
         balances |-> ToVec([i \in Currencies |-> IF i = 1 THEN b ELSE k])]])

NoQuery == [op |-> "none"]
Pending == [kind |-> "pending"]

TreeIdle ==
    /\ mini_trees_in = <<>>
    /\ tree_result = Pending
    /\ query = NoQuery

OrchIdle ==
    /\ entry_csvs_len = 0
    /\ executor_count = 1
    /\ channel_size = 1
    /\ main_pc = "idle"
    /\ spawned = 0
    /\ dist = [i \in Workers |-> NoTask]
    /\ exec = [i \in Workers |-> NoExec]
    /\ coll = [i \in Workers |-> NoColl]
    /\ entries_ch = [i \in Workers |-> <<>>]
    /\ tree_ch = [i \in Workers |-> <<>>]
    /\ cancel_token = FALSE
    /\ ordered_tree_results = <<>>
    /\ terminate_calls = 0
    /\ csv_failed = FALSE
    /\ worker_failed = FALSE
    /\ result = Pending

\* ---------------------------------------------------------------------
\* executor/utils.rs: get_specs_from_compose
\* ---------------------------------------------------------------------

\* Option<T>: None is the empty sequence, Some(v) the sequence of v
NoneOpt == <<>>
Some(v) == <<v>>
is_some(o) == o # <<>>
unwrap_or(o, d) == IF o = <<>> THEN d ELSE o[1]

\* the content of a compose file, as YAML: a version, the services and
\* the optional networks.  Every field of a service may be missing;
\* extra is a key that the structs of utils.rs do not declare.
ComposeNames == {"mini_tree", "other"}

ComposePlacements ==
    {NoneOpt, Some([constraints |-> NoneOpt]),
     Some([constraints |-> Some(<<"node.role == worker">>)])}

ComposeDeploys ==
    {NoneOpt} \cup {Some([replicas |-> r, placement |-> p]) :
                       r \in {NoneOpt, Some(5)}, p \in ComposePlacements}

ComposeServices ==
    [name : ComposeNames,
     image : {NoneOpt, Some("summadev/summa-aggregation-mini-tree:latest")},
     ports : {NoneOpt, Some(<<[target |-> 4000, published |-> 4000]>>)},
     deploy : ComposeDeploys,
     extra : {NoneOpt, Some("unless-stopped")}]

ComposeNetworks ==
    {NoneOpt, Some({})}
        \cup {Some({[name |-> n, driver |-> d]}) :
                 n \in ComposeNames, d \in {NoneOpt, Some("bridge")}}

ComposeFiles ==
    [version : {Some("3.8")},
     services : {{}} \cup {{s} : s \in ComposeServices},
     networks : ComposeNetworks]

\* serde_yaml::from_str::<DockerCompose>(&file_content): version and the
\* image of every service are required, the other fields are Option, keys
\* that are not declared are skipped
serde_yaml_from_str(file_content) ==
    IF \/ ~is_some(file_content.version)
       \/ \E s \in file_content.services : ~is_some(s.image)
    THEN [kind |-> "Err", error |-> "serde"]
    ELSE [kind |-> "Ok",
          value |-> [version |-> file_content.version[1],
                     services |-> {[name |-> s.name, image |-> s.image[1],
                                    ports |-> s.ports, deploy |-> s.deploy] :
                                       s \in file_content.services},
                     networks |-> file_content.networks]]

\* the network options after the for_each over compose.networks
network_options_of(service_name, networks) ==
    IF \E n \in networks : n.name = service_name
    THEN LET network == CHOOSE n \in networks : n.name = service_name
         IN  [name |-> service_name, driver |-> unwrap_or(network.driver, "overlay")]
    ELSE [name |-> "", driver |-> ""]

\* the ServiceSpec built from a service that has every field
service_spec_of(service_name, the_service) ==
    [name |-> service_name,
     replicas |-> the_service.deploy[1].replicas[1],
     constraints |-> the_service.deploy[1].placement[1].constraints[1],
     image |-> the_service.image,
     ports |-> [k \in 1 .. Len(the_service.ports[1]) |->
                   [target_port |-> the_service.ports[1][k].target,
                    published_port |-> the_service.ports[1][k].published,
                    publish_mode |-> "ingress"]],
     networks |-> <<service_name>>]

\* get_specs_from_compose(service_name, file_path) on a file that can be
\* read: Ok of the network options and the service spec, Err, or a panic
\* (the unwrap of the missing networks section)
get_specs_from_compose(service_name, file_content) ==
    LET parsed == serde_yaml_from_str(file_content)
        compose == parsed.value
        network_options == network_options_of(service_name, compose.networks[1])
        found == {s \in compose.services : s.name = service_name}
        the_service == CHOOSE s \in found : TRUE
    IN  IF parsed.kind = "Err" THEN parsed
        ELSE IF ~is_some(compose.networks) THEN [kind |-> "Panic"]
        ELSE IF network_options.name = "" THEN [kind |-> "Err", error |-> "network"]
        ELSE IF found = {} THEN [kind |-> "Err", error |-> "service"]
        ELSE IF ~is_some(the_service.ports) THEN [kind |-> "Err", error |-> "ports"]
        ELSE IF ~is_some(the_service.deploy) THEN [kind |-> "Err", error |-> "deploy"]
        ELSE IF ~is_some(the_service.deploy[1].replicas)
             THEN [kind |-> "Err", error |-> "replicas"]
        ELSE IF ~is_some(the_service.deploy[1].placement)
             THEN [kind |-> "Err", error |-> "placement"]
        ELSE IF ~is_some(the_service.deploy[1].placement[1].constraints)
             THEN [kind |-> "Err", error |-> "constraints"]
        ELSE [kind |-> "Ok", network_options |-> network_options,
              service_spec |-> service_spec_of(service_name, the_service)]

\* no get_specs_from_compose call made
NoComposeCall == [pc |-> "idle"]

ComposeIdle == compose_call = NoComposeCall

\* no Executor shared by two calls
NoConcurrent == [locking |-> FALSE, status |-> "Idle", holder |-> 0, calls |-> <<>>,
                 overlapped |-> FALSE]

ConcurrentIdle == concurrent = NoConcurrent

\* no spawner in use
NoService == [state |-> "absent", creations |-> 0, terminated |-> FALSE,
              containers |-> {}, requests |-> <<>>]

NoSpawner == [kind |-> "Mock", service_info |-> FALSE, worker_node_url |-> <<>>,
              urls |-> <<>>, container_name |-> <<>>, compose |-> NoneOpt]

SpawnerIdle ==
    /\ spawner = NoSpawner
    /\ worker_counter = 0
    /\ futures = <<>>
    /\ service = NoService

\* no generate_tree call under way, no round trip made
NoRoundTrip == [kind |-> "none"]
TransportError == [kind |-> "transport_error"]
NoResponse == [kind |-> "none"]
NoCall == [pc |-> "idle", json_entries |-> <<>>, attempts |-> 0,
           response |-> NoResponse, result |-> [kind |-> "pending"]]

HttpIdle ==
    /\ server = "down"
    /\ calls_made = 0
    /\ call = NoCall
    /\ served = <<>>
    /\ round_trip = NoRoundTrip

TreeInit ==
    /\ \E n \in 0 .. MaxMiniTrees :
       \E d \in 1 .. MaxMiniDepth, d_last \in 1 .. MaxMiniDepth :
       \E b_first \in BalanceChoices, b_rest \in BalanceChoices :
          mini_trees_in =
              ToVec([k \in 1 .. n |->
                        from_entries(MiniEntries(k - 1,
                                                 IF k = n THEN d_last ELSE d,
                                                 IF k = 1 THEN b_first ELSE b_rest))])
    /\ tree_result = Pending
    /\ query = NoQuery
    /\ OrchIdle
    /\ HttpIdle
    /\ SpawnerIdle
    /\ ComposeIdle
    /\ ConcurrentIdle

\* the user indices of a tree: [0, K * 2^d)
UserIndices(t) == 0 .. (Len(t.mini_trees) * Pow2(t.mini_trees[1].depth) - 1)

\* AggregationMerkleSumTree::new(mini_trees, ..) is called
TreeNew ==
    /\ tree_result = Pending
    /\ main_pc = "idle"
    /\ tree_result' = new(mini_trees_in)
    /\ UNCHANGED <<util_vars, orch_vars, http_vars, spawner_vars, mini_trees_in, query>>

\* tree.get_entry(u) is called
TreeGetEntry ==
    /\ tree_result.kind = "Ok"
    /\ \E u \in UserIndices(tree_result.tree) :
          query' = [op |-> "get_entry", u |-> u, out |-> get_entry(tree_result.tree, u)]
    /\ UNCHANGED <<util_vars, orch_vars, http_vars, spawner_vars, mini_trees_in, tree_result>>

\* tree.generate_proof(u) is called, and tree.verify_proof on its proof
TreeGenerateProof ==
    /\ tree_result.kind = "Ok"
    /\ \E u \in UserIndices(tree_result.tree) :
          LET out == generate_proof(tree_result.tree, u)
          IN  query' = [op |-> "generate_proof", u |-> u, out |-> out,
                        verified |-> IF out.kind = "Ok" THEN verify_proof(out.proof)
                                     ELSE [kind |-> "none"]]
    /\ UNCHANGED <<util_vars, orch_vars, http_vars, spawner_vars, mini_trees_in, tree_result>>

\* the rows of the CSVs of the mini trees, one CSV after the other
RECURSIVE ConcatEntries(_, _)
ConcatEntries(trees, n) ==
    IF n = 0 THEN <<>>
    ELSE ConcatEntries(trees, n - 1) \o trees[n].entries

\* test_aggregation_mst_compare_mst_result: one Merkle sum tree is built
\* directly over all the rows and its root is set beside the tree's
TreeCompareMst ==
    /\ tree_result.kind = "Ok"
    /\ query' = [op |-> "compare_mst",
                 root |-> from_entries(
                              ConcatEntries(mini_trees_in, Len(mini_trees_in))).root]
    /\ UNCHANGED <<util_vars, orch_vars, http_vars, spawner_vars, mini_trees_in, tree_result>>

TreeNext ==
    \/ TreeNew
    \/ TreeGetEntry
    \/ TreeGenerateProof
    \/ TreeCompareMst

TreeSpec == TreeInit /\ [][TreeNext]_vars

\* Trees of up to MaxProofTrees mini trees of one depth, for the proofs of
\* users whose path meets a level without a sibling
ProofInit ==
    /\ \E n \in 1 .. MaxProofTrees :
       \E d \in 1 .. MaxMiniDepth :
          mini_trees_in =
              ToVec([k \in 1 .. n |-> from_entries(MiniEntries(k - 1, d, 1))])
    /\ tree_result = Pending
    /\ query = NoQuery
    /\ OrchIdle
    /\ HttpIdle
    /\ SpawnerIdle
    /\ ComposeIdle
    /\ ConcurrentIdle

ProofNext ==
    \/ TreeNew
    \/ TreeGenerateProof

ProofSpec == ProofInit /\ [][ProofNext]_vars

\* ------------------------------------------------------------------------
\* JsonMerkleSumTree::from_tree and to_mst on bounded sets of trees
\* ------------------------------------------------------------------------
\* the descriptors read from the header of a CSV file
CsvCryptocurrencies ==
    ToVec([i \in Currencies |-> [name |-> "BTC", chain |-> "BTC"]])

\* the valid trees of the round trip: from_entries of 2^d entries, built
\* sorted or not, with the descriptors of a CSV or the dummy ones
ValidTrees ==
    {from_params(m.root, m.nodes, m.depth, m.entries, cc, sorted).tree :
        m \in {from_entries(MiniEntries(j, d, b)) :
                  j \in 0 .. MaxMiniTrees, d \in 1 .. MaxMiniDepth, b \in BalanceChoices},
        cc \in {CsvCryptocurrencies, DummyCryptocurrencies},
        sorted \in BOOLEAN}

\* JsonMerkleSumTree::from_tree(tree).to_mst()
JsonRoundTrip ==
    /\ round_trip = NoRoundTrip
    /\ \E t \in ValidTrees :
          round_trip' = [kind |-> "done", tree |-> t, out |-> to_mst(from_tree(t))]
    /\ UNCHANGED <<util_vars, orch_vars, tree_vars, spawner_vars, server, calls_made, call, served>>

\* ------------------------------------------------------------------------
\* Executor::generate_tree and the mini tree server (create_mst)
\* ------------------------------------------------------------------------
\* the balance strings of a request: "7", "12", "1a" and ""
BalanceStrings == {<<"7">>, <<"1", "2">>, <<"1", "a">>, <<>>}

\* json_entries of two users; the first user has n balances, the first of
\* them the string s
JsonBatch(s, n) ==
    <<[username |-> 0,
       balances |-> ToVec([i \in 1 .. n |-> IF i = 1 THEN s ELSE <<"3">>])],
      [username |-> 1,
       balances |-> ToVec([i \in Currencies |-> <<"4">>])]>>

Batches == {JsonBatch(s, n) : s \in BalanceStrings, n \in 1 .. (N_CURRENCIES + 1)}

\* every JsonEntry of the batch converts to an Entry
Parsable(json_entries) ==
    \A k \in 1 .. Len(json_entries) : to_entry(json_entries[k]).kind = "Ok"

batch_entries(json_entries) ==
    ToVec([k \in 1 .. Len(json_entries) |-> to_entry(json_entries[k]).entry])

\* create_mst(Json(json_entries)): the entries are converted with unwrap,
\* the tree is built and answered as JSON with status 200; a conversion
\* that fails aborts the handler
create_mst(json_entries) ==
    IF ~Parsable(json_entries) THEN [kind |-> "panic"]
    ELSE CHOOSE r \in
           {[kind |-> "response", status |-> 200,
             body |-> [type |-> "tree",
                       json |-> [root |-> convert_node_to_json(tree.root),
                                 nodes |-> ToVec([l \in 1 .. Len(tree.nodes) |->
                                     ToVec([k \in 1 .. Len(tree.nodes[l]) |->
                                         convert_node_to_json(tree.nodes[l][k])])]),
                                 depth |-> tree.depth,
                                 entries |-> ToVec([k \in 1 .. Len(tree.entries) |->
                                     from_entry(tree.entries[k])]),
                                 is_sorted |-> FALSE]]] :
            tree \in {from_entries(batch_entries(json_entries))}} : TRUE

\* what generate_tree returns on a response: send().await? passes the
\* transport error on, json::<JsonMerkleSumTree>().await? the decoding
\* error; the status of the response is not looked at
generate_tree_return(json_entries, response) ==
    IF response.kind = "transport_error" THEN [kind |-> "Err", error |-> "transport"]
    ELSE IF response.body.type # "tree" THEN [kind |-> "Err", error |-> "decode"]
    ELSE IF ~Parsable(json_entries) \/ ~json_nodes_ok(response.body.json)
    THEN [kind |-> "panic"]
    ELSE [kind |-> "Ok",
          tree |-> [root |-> to_node(response.body.json.root).node,
                    nodes |-> json_nodes(response.body.json),
                    depth |-> response.body.json.depth,
                    entries |-> batch_entries(json_entries),
                    is_sorted |-> FALSE]]

HttpInit ==
    /\ server \in {"worker", "gateway", "down"}
    /\ calls_made = 0
    /\ call = NoCall
    /\ served = <<>>
    /\ round_trip = NoRoundTrip
    /\ OrchIdle
    /\ TreeIdle
    /\ SpawnerIdle
    /\ ComposeIdle
    /\ ConcurrentIdle

\* executor.generate_tree(json_entries) is called
ExecutorGenerateTree ==
    /\ call.pc \in {"idle", "returned"}
    /\ calls_made < MaxCalls
    /\ calls_made' = calls_made + 1
    /\ \E batch \in Batches :
          call' = [NoCall EXCEPT !.pc = "send", !.json_entries = batch]
    /\ UNCHANGED <<util_vars, orch_vars, tree_vars, spawner_vars, server, served, round_trip>>

\* self.client.post(&self.url).json(&json_entries).send()
ExecutorSend ==
    /\ call.pc = "send"
    /\ call' = [call EXCEPT !.pc = "await", !.attempts = @ + 1]
    /\ UNCHANGED <<util_vars, orch_vars, tree_vars, spawner_vars, server, calls_made, served, round_trip>>

\* the request does not get through: nothing listens at the URL, or the
\* connection fails
ConnectionFails ==
    /\ call.pc = "await"
    /\ call' = [call EXCEPT !.pc = "receive", !.response = TransportError]
    /\ UNCHANGED <<util_vars, orch_vars, tree_vars, spawner_vars, server, calls_made, served, round_trip>>

\* the mini tree server runs create_mst on the request; when the handler
\* aborts the connection is closed without a response
WorkerCreateMst ==
    /\ call.pc = "await"
    /\ server = "worker"
    /\ LET out == create_mst(call.json_entries)
       IN  /\ served' = Append(served, [parsable |-> Parsable(call.json_entries),
                                        kind |-> out.kind,
                                        status |-> IF out.kind = "response"
                                                   THEN out.status ELSE None])
           /\ call' = [call EXCEPT !.pc = "receive",
                                   !.response = IF out.kind = "panic"
                                                THEN TransportError ELSE out]
    /\ UNCHANGED <<util_vars, orch_vars, tree_vars, spawner_vars, server, calls_made, round_trip>>

\* a gateway in front of the worker answers itself, with a text body
GatewayAnswers ==
    /\ call.pc = "await"
    /\ server = "gateway"
    /\ \E status \in {200, 502} :
          call' = [call EXCEPT !.pc = "receive",
                               !.response = [kind |-> "response", status |-> status,
                                             body |-> [type |-> "text"]]]
    /\ UNCHANGED <<util_vars, orch_vars, tree_vars, spawner_vars, server, calls_made, served, round_trip>>

\* (variant: a response that does not decode is requested again)
ExecutorReceiveRetryDecode ==
    /\ call.pc = "receive"
    /\ LET out == generate_tree_return(call.json_entries, call.response)
       IN  call' = IF out = [kind |-> "Err", error |-> "decode"] /\ call.attempts < 2
                   THEN [call EXCEPT !.pc = "send"]
                   ELSE [call EXCEPT !.pc = "returned", !.result = out]
    /\ UNCHANGED <<util_vars, orch_vars, tree_vars, spawner_vars, server, calls_made, served, round_trip>>

\* the response, or the transport error, reaches generate_tree, which
\* returns
ExecutorReceive ==
    /\ call.pc = "receive"
    /\ call' = [call EXCEPT !.pc = "returned",
                            !.result = generate_tree_return(call.json_entries,
                                                            call.response)]
    /\ UNCHANGED <<util_vars, orch_vars, tree_vars, spawner_vars, server, calls_made, served, round_trip>>

HttpNext ==
    \/ ExecutorGenerateTree
    \/ ExecutorSend
    \/ ConnectionFails
    \/ WorkerCreateMst
    \/ GatewayAnswers
    \/ ExecutorReceive

HttpSpec == HttpInit /\ [][HttpNext]_vars

\* the round trip is made on its own, no request under way
JsonInit ==
    /\ HttpInit
    /\ server = "worker"

JsonSpec == JsonInit /\ [][JsonRoundTrip]_vars

\* ------------------------------------------------------------------------
\* ExecutorSpawner: MockSpawner, LocalSpawner, CloudSpawner
\* ------------------------------------------------------------------------
\* default_port of the CloudSpawner of the examples and tests
DEFAULT_PORT == 4000

\* the entries of worker_node_url: a host, with or without a port
NodeUrls ==
    {[host |-> <<"a">>, port |-> None],
     [host |-> <<"a">>, port |-> 80],
     [host |-> <<"1", ".", "2">>, port |-> None]}

\* the string of an entry: host, or host:port
UrlString(u) ==
    IF u.port = None THEN u.host ELSE u.host \o <<":">> \o to_string(u.port)

\* the lists of 1 .. MaxUrls entries
RECURSIVE UrlLists(_)
UrlLists(n) ==
    IF n = 0 THEN {<<>>}
    ELSE UrlLists(n - 1)
         \cup {Append(l, u) : l \in {x \in UrlLists(n - 1) : Len(x) = n - 1},
                              u \in NodeUrls}

\* node_url.split(':').last().unwrap()
RECURSIVE LastSegment(_, _)
LastSegment(s, n) ==
    IF n = 0 \/ s[n] = ":" THEN SubSeq(s, n + 1, Len(s))
    ELSE LastSegment(s, n - 1)

\* str::parse::<u16>
parse_u16(s) ==
    LET big == parse_bytes(s, 10)
    IN  IF big.kind = "Err" \/ big.value > 65535 THEN [kind |-> "Err"]
        ELSE [kind |-> "Ok", value |-> big.value]

\* let has_port = node_url.split(':').last().unwrap().parse::<u16>().is_ok()
has_port(node_url) == parse_u16(LastSegment(node_url, Len(node_url))).kind = "Ok"

\* (variant: the port is appended to every URL)
final_url_always_port(node_url, port) == node_url \o <<":">> \o to_string(port)

\* let final_url = if has_port { node_url } else { format!("{}:{}", ..) }
final_url(node_url, port) ==
    IF has_port(node_url) THEN node_url
    ELSE node_url \o <<":">> \o to_string(port)

\* format!("http://{}", final_url)
executor_url(node_url, port) ==
    <<"h", "t", "t", "p", ":", "/", "/">> \o final_url(node_url, port)

\* str::split(sep): the segments between the separators
RECURSIVE Split(_, _)
Split(s, sep) ==
    IF \A i \in 1 .. Len(s) : s[i] # sep THEN <<s>>
    ELSE LET i == CHOOSE i \in 1 .. Len(s) :
                      s[i] = sep /\ \A j \in 1 .. i - 1 : s[j] # sep
         IN  <<SubSeq(s, 1, i - 1)>> \o Split(SubSeq(s, i + 1, Len(s)), sep)

\* one number of a dotted IPv4 address: 1 to 3 decimal digits, at most
\* 255, no leading zero
parse_octet(s) ==
    LET n == parse_bytes(s, 10)
    IN  IF n.kind = "Err" \/ Len(s) > 3 \/ (Len(s) > 1 /\ s[1] = "0") \/ n.value > 255
        THEN [kind |-> "Err"]
        ELSE [kind |-> "Ok", value |-> n.value]

\* SocketAddr::from_str(&url) on "a.b.c.d:port" (IPv4); a host name or a
\* missing port is an error
SocketAddr_from_str(url) ==
    LET parts == Split(url, ":")
        octets == Split(parts[1], ".")
        port == parse_u16(parts[2])
    IN  IF /\ Len(parts) = 2
           /\ Len(octets) = 4
           /\ \A k \in 1 .. 4 : parse_octet(octets[k]).kind = "Ok"
           /\ Len(parts[2]) <= 5
           /\ port.kind = "Ok"
        THEN [kind |-> "Ok",
              value |-> [ip |-> [k \in 1 .. 4 |-> parse_octet(octets[k]).value],
                         port |-> port.value]]
        ELSE [kind |-> "Err"]

\* format!("{}", addr) of a SocketAddr
SocketAddr_to_string(addr) ==
    to_string(addr.ip[1]) \o <<".">> \o to_string(addr.ip[2]) \o <<".">>
        \o to_string(addr.ip[3]) \o <<".">> \o to_string(addr.ip[4])
        \o <<":">> \o to_string(addr.port)

\* the entries of the URL list of a MockSpawner: a socket address of
\* another host, a host name with a port, and an address of this host in
\* the port range of the OS at which nothing listens
MockUrls ==
    {<<"1", ".", "2", ".", "3", ".", "4", ":", "8", "0">>,
     <<"a", ":", "8", "0">>,
     <<"1", "2", "7", ".", "0", ".", "0", ".", "1", ":", "5", "0", "0", "0", "0">>}

RECURSIVE MockUrlLists(_)
MockUrlLists(n) ==
    IF n = 0 THEN {<<>>}
    ELSE MockUrlLists(n - 1)
         \cup {Append(l, u) : l \in {x \in MockUrlLists(n - 1) : Len(x) = n - 1},
                              u \in MockUrls}

\* the ports the OS hands out for a bind to port 0
EphemeralPorts == 50000 .. (50000 + MaxSpawns - 1)

\* SocketAddr::from(([127, 0, 0, 1], port))
LocalAddr(port) == [ip |-> <<127, 0, 0, 1>>, port |-> port]

\* the container names given to LocalSpawner::new
ContainerNames == {<<"p">>, <<"q", "_", "1">>}

\* format!("{}_{}", container_name, id)
container_name_with_id(container_name, id) == container_name \o <<"_">> \o to_string(id)

\* the compose files given to a CloudSpawner with service_info: a complete
\* one, and one whose service has no ports
CompleteService ==
    [name |-> "mini_tree",
     image |-> Some("summadev/summa-aggregation-mini-tree:latest"),
     ports |-> Some(<<[target |-> 4000, published |-> 4000]>>),
     deploy |-> Some([replicas |-> Some(5),
                      placement |-> Some([constraints |->
                                              Some(<<"node.role == worker">>)])]),
     extra |-> NoneOpt]

CompleteCompose ==
    [version |-> Some("3.8"), services |-> {CompleteService},
     networks |-> Some({[name |-> "mini_tree", driver |-> NoneOpt]})]

CloudComposes ==
    {CompleteCompose,
     [CompleteCompose EXCEPT !.services = {[CompleteService EXCEPT !.ports = NoneOpt]}]}

\* MockSpawner::new(urls), LocalSpawner::new(image_name, container_name)
\* and CloudSpawner::new(service_info, worker_node_url, default_port).
\* urls: None of a MockSpawner is the empty list, which spawn_executor
\* treats alike.
SpawnerInit ==
    /\ \/ \E l \in MockUrlLists(MaxUrls) :
             spawner = [NoSpawner EXCEPT !.urls = l]
       \/ \E c \in ContainerNames :
             spawner = [NoSpawner EXCEPT !.kind = "Local", !.container_name = c]
       \/ \E l \in UrlLists(MaxUrls) :
             \/ spawner = [NoSpawner EXCEPT !.kind = "Cloud", !.worker_node_url = l]
             \/ \E c \in CloudComposes :
                   spawner = [NoSpawner EXCEPT !.kind = "Cloud", !.worker_node_url = l,
                                               !.service_info = TRUE,
                                               !.compose = Some(c)]
    /\ worker_counter = 0
    /\ futures = <<>>
    /\ service = NoService
    /\ OrchIdle
    /\ TreeIdle
    /\ HttpIdle
    /\ ComposeIdle
    /\ ConcurrentIdle

\* assert!(!worker_node_url.is_empty(), "Worker node url is empty"): no
\* CloudSpawner is constructed from an empty list
constructed == spawner.kind = "Cloud" => spawner.worker_node_url # <<>>

\* every earlier spawn_executor future has completed
AllAwaited == \A k \in 1 .. Len(futures) : futures[k].pc \in {"done", "panicked"}

\* a spawn_executor call as it starts
NewFuture == [observed |-> worker_counter, creator |-> FALSE, rx |-> "empty",
              pc |-> "pending", node_url |-> <<>>, addr |-> NoneOpt,
              executor |-> None, sequential |-> AllAwaited]

\* spawner.spawn_executor() is called: the part that runs in the call.
\* Mock and Local take their id with fetch_add; Mock sends the address of
\* urls[id] when there is one, otherwise both spawn the task that starts
\* the worker.  Cloud loads the counter, spawns the task that creates the
\* service when the counter is 0 and service_info is given (otherwise tx
\* is dropped when the call returns), and indexes worker_node_url with
\* the counter.
SpawnExecutor ==
    /\ Len(futures) < MaxSpawns
    /\ constructed
    /\ ~service.terminated
    /\ \A k \in 1 .. Len(futures) : futures[k].pc # "call_panicked"
    /\ CASE spawner.kind = "Mock" ->
              LET id == worker_counter
                  given == Len(spawner.urls) > id
                  addr == SocketAddr_from_str(spawner.urls[id + 1])
              IN  /\ worker_counter' = worker_counter + 1
                  /\ futures' = Append(futures,
                        IF ~given THEN NewFuture
                        ELSE IF addr.kind = "Err"
                        THEN [NewFuture EXCEPT !.rx = "closed", !.pc = "call_panicked"]
                        ELSE [NewFuture EXCEPT !.rx = "value", !.addr = Some(addr.value)])
                  /\ UNCHANGED service
         [] spawner.kind = "Local" ->
              /\ worker_counter' = worker_counter + 1
              /\ futures' = Append(futures, NewFuture)
              /\ UNCHANGED service
         [] spawner.kind = "Cloud" ->
              LET current_worker_counter == worker_counter
                  creator == current_worker_counter = 0 /\ spawner.service_info
              IN  /\ futures' = Append(futures,
                         [NewFuture EXCEPT
                             !.creator = creator,
                             !.rx = IF creator THEN "empty" ELSE "closed",
                             !.pc = IF current_worker_counter >= Len(spawner.worker_node_url)
                                    THEN "call_panicked" ELSE "pending",
                             !.node_url =
                                 IF current_worker_counter >= Len(spawner.worker_node_url)
                                 THEN <<>>
                                 ELSE UrlString(spawner.worker_node_url[current_worker_counter + 1])])
                  /\ service' = IF creator
                                THEN [service EXCEPT !.creations = @ + 1,
                                                     !.state = "creating"]
                                ELSE service
                  /\ UNCHANGED worker_counter
    /\ UNCHANGED <<util_vars, orch_vars, tree_vars, http_vars, spawner>>

\* the addresses the in-process servers of a MockSpawner are bound to
BoundPorts ==
    {futures[j].addr[1].port :
        j \in {i \in 1 .. Len(futures) :
                  futures[i].observed >= Len(spawner.urls) /\ futures[i].addr # NoneOpt}}

\* the task spawned by call k ends.  Mock: the server is bound to a port
\* the OS chose among those not in use and tx.send(server.local_addr())
\* is done.  Local: create_container has created and started the
\* container p_id and tx.send(..) is done, or the creation failed, or the
\* start of the created container failed, and tx is dropped.  Cloud:
\* create_service panics on a compose file that get_specs_from_compose
\* does not accept, otherwise the service is there and tx.send(..) is
\* done, or Docker failed; tx is dropped unless the service is there.
SpawnTaskEnds(k) ==
    /\ k \in 1 .. Len(futures)
    /\ futures[k].rx = "empty"
    /\ futures[k].pc # "call_panicked"
    /\ CASE spawner.kind = "Mock" ->
              \E port \in EphemeralPorts \ BoundPorts :
                  /\ futures' = [futures EXCEPT ![k].rx = "value",
                                                ![k].addr = Some(LocalAddr(port))]
                  /\ UNCHANGED service
         [] spawner.kind = "Local" ->
              \E res \in {"Ok", "create_failed", "start_failed"} :
                  /\ futures' = [futures EXCEPT
                                    ![k].rx = IF res = "Ok" THEN "value" ELSE "closed"]
                  /\ service' =
                        IF res = "create_failed" THEN service
                        ELSE [service EXCEPT !.containers = @ \cup
                                 {container_name_with_id(spawner.container_name,
                                                         futures[k].observed)}]
         [] spawner.kind = "Cloud" ->
              \E ok \in (IF get_specs_from_compose("mini_tree", spawner.compose[1]).kind = "Ok"
                         THEN BOOLEAN ELSE {FALSE}) :
                  /\ futures' = [futures EXCEPT ![k].rx = IF ok THEN "value" ELSE "closed"]
                  /\ service' = IF ok THEN [service EXCEPT !.state = "present"]
                                ELSE service
    /\ UNCHANGED <<util_vars, orch_vars, tree_vars, http_vars, spawner, worker_counter>>

\* the future of a Cloud call is polled first: with the counter at 0 it
\* awaits rx
CloudFutureAwaitsRx(k) ==
    /\ k \in 1 .. Len(futures)
    /\ spawner.kind = "Cloud"
    /\ futures[k].pc = "pending"
    /\ worker_counter = 0
    /\ futures' = [futures EXCEPT ![k].pc = "awaiting_rx"]
    /\ UNCHANGED <<util_vars, orch_vars, tree_vars, http_vars, spawner, worker_counter, service>>

\* format!("http://{}", url)
worker_url(url) == <<"h", "t", "t", "p", ":", "/", "/">> \o url

\* the future of call k completes.  Mock and Local: rx.await.expect(..)
\* yields the worker, or aborts when tx was dropped.  Cloud: past rx (not
\* awaited when the counter is not 0; any outcome of rx lets it go on) the
\* URL is completed, the counter incremented and the Executor returned.
FutureCompletes(k) ==
    /\ k \in 1 .. Len(futures)
    /\ IF spawner.kind \in {"Mock", "Local"}
       THEN /\ futures[k].pc = "pending"
            /\ futures[k].rx # "empty"
            /\ futures' = [futures EXCEPT ![k] =
                              IF futures[k].rx = "value"
                              THEN [@ EXCEPT !.pc = "done",
                                             !.executor =
                                                 IF spawner.kind = "Mock"
                                                 THEN worker_url(SocketAddr_to_string(
                                                          futures[k].addr[1]))
                                                 ELSE <<"w", to_string(k)>>]
                              ELSE [@ EXCEPT !.pc = "panicked"]]
            /\ UNCHANGED worker_counter
       ELSE /\ \/ futures[k].pc = "pending" /\ worker_counter # 0
               \/ futures[k].pc = "awaiting_rx" /\ futures[k].rx # "empty"
            /\ futures' = [futures EXCEPT ![k].pc = "done",
                                          ![k].executor =
                                              executor_url(futures[k].node_url, DEFAULT_PORT)]
            /\ worker_counter' = worker_counter + 1
    /\ UNCHANGED <<util_vars, orch_vars, tree_vars, http_vars, spawner, service>>

\* a request to the Docker daemon
DockerRequest(op, name, force) == [op |-> op, name |-> name, force |-> force]

\* (variant: the loop of removals ends at the first removal that fails)
removal_requests_until_failure(names, failed) ==
    LET stop == IF \E i \in 1 .. Len(names) : i \in failed
                THEN CHOOSE i \in 1 .. Len(names) :
                         i \in failed /\ \A j \in 1 .. i - 1 : j \notin failed
                ELSE Len(names)
    IN  ToVec([i \in 1 .. stop |-> DockerRequest("remove_container", names[i], TRUE)])

\* for i in 0..worker_counter { remove_container(name_i, force: true) }:
\* an error is printed and the loop goes on
removal_requests(names, failed) ==
    ToVec([i \in 1 .. Len(names) |-> DockerRequest("remove_container", names[i], TRUE)])

\* spawner.terminate_executors().await.  Mock: nothing.  Local: the
\* counter is loaded and the containers p_0 .. p_(counter-1) are removed
\* by force, any of the removals may fail.  Cloud with service_info:
\* delete_service(..).await.unwrap(), which fails when the service is not
\* there, then remove_network(..).await.unwrap().
TerminateExecutors ==
    /\ constructed
    /\ ~service.terminated
    /\ AllAwaited
    /\ CASE spawner.kind = "Mock" ->
              service' = [service EXCEPT !.terminated = TRUE]
         [] spawner.kind = "Local" ->
              LET names == ToVec([i \in 1 .. worker_counter |->
                               container_name_with_id(spawner.container_name, i - 1)])
              IN  \E failed \in SUBSET (1 .. worker_counter) :
                      LET requests == removal_requests(names, failed)
                      IN  service' = [service EXCEPT
                              !.terminated = TRUE,
                              !.requests = requests,
                              !.containers = @ \ {requests[i].name :
                                                     i \in (1 .. Len(requests)) \ failed}]
         [] spawner.kind = "Cloud" ->
              service' = [service EXCEPT
                  !.terminated = TRUE,
                  !.state = IF spawner.service_info THEN "removed" ELSE @,
                  !.requests =
                      IF ~spawner.service_info THEN <<>>
                      ELSE IF service.state # "present"
                      THEN <<DockerRequest("delete_service", "mini_tree", FALSE)>>
                      ELSE <<DockerRequest("delete_service", "mini_tree", FALSE),
                             DockerRequest("remove_network", "mini_tree", FALSE)>>]
    /\ UNCHANGED <<util_vars, orch_vars, tree_vars, http_vars, spawner, worker_counter, futures>>

SpawnerNext ==
    \/ SpawnExecutor
    \/ \E k \in 1 .. MaxSpawns : SpawnTaskEnds(k)
    \/ \E k \in 1 .. MaxSpawns : CloudFutureAwaitsRx(k)
    \/ \E k \in 1 .. MaxSpawns : FutureCompletes(k)
    \/ TerminateExecutors

SpawnerSpec == SpawnerInit /\ [][SpawnerNext]_vars

\* get_specs_from_compose(service_name, file_path) is called on a compose
\* file
ComposeInit ==
    /\ \E n \in ComposeNames, f \in ComposeFiles :
          compose_call = [pc |-> "called", service_name |-> n, file_content |-> f,
                          result |-> [kind |-> "none"]]
    /\ OrchIdle
    /\ TreeIdle
    /\ HttpIdle
    /\ SpawnerIdle
    /\ ConcurrentIdle

\* the call returns, or panics
GetSpecsFromCompose ==
    /\ compose_call.pc = "called"
    /\ compose_call' = [compose_call EXCEPT
                           !.pc = "returned",
                           !.result = get_specs_from_compose(compose_call.service_name,
                                                             compose_call.file_content)]
    /\ UNCHANGED <<orch_vars, tree_vars, http_vars, spawner_vars, concurrent>>

ComposeSpec == ComposeInit /\ [][GetSpecsFromCompose]_vars

\* ---------------------------------------------------------------------
\* Two generate_tree calls on one Executor, joined with join_all
\* ---------------------------------------------------------------------

\* a generate_tree call that has not been polled yet
NewCall(json_entries) ==
    [pc |-> "start", json_entries |-> json_entries, response |-> NoResponse,
     result |-> Pending]

\* the batches of the two calls: two that parse and one that does not
ConcurrentBatches ==
    {JsonBatch(<<"7">>, 1), JsonBatch(<<"1", "2">>, N_CURRENCIES), JsonBatch(<<"1", "a">>, 1)}

\* let executor = spawner.spawn_executor().await; then two generate_tree
\* futures on it.  locking: the Executor of executor/mod.rs, whose
\* generate_tree holds the status mutex; otherwise the Executor of
\* executor/executor.rs, which has no status.
ConcurrentInit ==
    /\ \E b1 \in ConcurrentBatches, b2 \in ConcurrentBatches, locking \in BOOLEAN :
          concurrent = [locking |-> locking, status |-> "Idle", holder |-> 0,
                        calls |-> <<NewCall(b1), NewCall(b2)>>, overlapped |-> FALSE]
    /\ OrchIdle
    /\ TreeIdle
    /\ HttpIdle
    /\ SpawnerIdle
    /\ ComposeIdle

\* call c passes self.status.lock().await (when there is a status), sets
\* Busy and posts its batch; overlapped records that the request of the
\* other call was under way then
GenerateTreePost(c) ==
    /\ c \in 1 .. Len(concurrent.calls)
    /\ concurrent.calls[c].pc = "start"
    /\ concurrent.locking => concurrent.holder = 0
    /\ concurrent' = [concurrent EXCEPT
                         !.holder = IF concurrent.locking THEN c ELSE @,
                         !.status = IF concurrent.locking THEN "Busy" ELSE @,
                         !.calls[c].pc = "await",
                         !.overlapped = @ \/ \E o \in 1 .. Len(concurrent.calls) :
                                               concurrent.calls[o].pc \in {"await", "receive"}]
    /\ UNCHANGED <<orch_vars, tree_vars, http_vars, spawner_vars, compose_call>>

\* the worker handles the request of call c on the connection of that
\* request; a handler that panics closes the connection
WorkerServes(c) ==
    /\ c \in 1 .. Len(concurrent.calls)
    /\ concurrent.calls[c].pc = "await"
    /\ LET out == create_mst(concurrent.calls[c].json_entries)
       IN  concurrent' = [concurrent EXCEPT
                             !.calls[c].pc = "receive",
                             !.calls[c].response = IF out.kind = "panic"
                                                   THEN TransportError ELSE out]
    /\ UNCHANGED <<orch_vars, tree_vars, http_vars, spawner_vars, compose_call>>

\* (variant: a call takes the response that arrived first)
response_of_first(calls, c) ==
    IF calls[3 - c].response # NoResponse THEN calls[3 - c].response
    ELSE calls[c].response

\* .send().await?.json::<JsonMerkleSumTree>().await?: the response to the
\* request of this call
response_of(calls, c) == calls[c].response

\* call c reads its response, builds the tree from it and from its own
\* json_entries, and leaves generate_tree, which drops the status guard;
\* *status = Status::Idle is executed on the path that returns Ok(tree)
\* only, the ? operators and the unwraps leave the function before it
GenerateTreeReturn(c) ==
    /\ c \in 1 .. Len(concurrent.calls)
    /\ concurrent.calls[c].pc = "receive"
    /\ LET out == generate_tree_return(concurrent.calls[c].json_entries,
                                       response_of(concurrent.calls, c))
       IN  concurrent' = [concurrent EXCEPT
                             !.holder = IF concurrent.locking THEN 0 ELSE @,
                             !.status = IF concurrent.locking /\ out.kind = "Ok"
                                        THEN "Idle" ELSE @,
                             !.calls[c].pc = "returned",
                             !.calls[c].result = out]
    /\ UNCHANGED <<orch_vars, tree_vars, http_vars, spawner_vars, compose_call>>

ConcurrentNext ==
    \/ \E c \in 1 .. 2 : GenerateTreePost(c)
    \/ \E c \in 1 .. 2 : WorkerServes(c)
    \/ \E c \in 1 .. 2 : GenerateTreeReturn(c)

ConcurrentSpec == ConcurrentInit /\ [][ConcurrentNext]_vars

\* join_all polls both futures until both are done, and the worker serves
\* every request it has received
ConcurrentFairSpec == ConcurrentSpec /\ WF_vars(ConcurrentNext)

Init ==
    OrchInit /\ TreeIdle /\ HttpIdle /\ SpawnerIdle /\ ComposeIdle /\ ConcurrentIdle

Next ==
    \/ MainSpawnExecutor
    \/ MainStartCollectors
    \/ MainJoin
    \/ MainFinish
    \/ \E i \in Workers : DistParse(i)
    \/ \E i \in Workers : DistSend(i)
    \/ \E i \in Workers : ExecRecv(i)
    \/ \E i \in Workers : ExecGenerate(i)
    \/ \E i \in Workers : ExecSend(i)
    \/ \E i \in Workers : CollRecv(i)

Spec == Init /\ [][Next]_vars

\* The tokio scheduler keeps running ready tasks and every HTTP request
\* eventually returns: a step is taken as long as one is possible.  (No
\* task can be overtaken forever, every step of a run consumes a file, a
\* queued message or a position of a task.)
FairSpec == Spec /\ WF_vars(Next)

\* The calls of create_aggregation_mst with any executor_count, zero
\* included, on a spawner whose spawn_executor futures may abort
AbortInit ==
    /\ entry_csvs_len \in 0 .. MaxCsv
    /\ executor_count \in 0 .. MaxWorkers
    /\ channel_size \in {1, MaxChannel}
    /\ main_pc = "spawn"
    /\ spawned = 0
    /\ dist = [i \in Workers |-> NoTask]
    /\ exec = [i \in Workers |-> NoExec]
    /\ coll = [i \in Workers |-> NoColl]
    /\ entries_ch = [i \in Workers |-> <<>>]
    /\ tree_ch = [i \in Workers |-> <<>>]
    /\ cancel_token = FALSE
    /\ ordered_tree_results = <<>>
    /\ terminate_calls = 0
    /\ csv_failed = FALSE
    /\ worker_failed = FALSE
    /\ result = [kind |-> "pending"]
    /\ TreeIdle /\ HttpIdle /\ SpawnerIdle /\ ComposeIdle /\ ConcurrentIdle

AbortNext ==
    \/ Next
    \/ MainDivideByZero
    \/ MainSpawnExecutorPanics

AbortSpec == AbortInit /\ [][AbortNext]_vars

\* ------------------------------------------------------------------------
\* Properties
\* ------------------------------------------------------------------------
Returned == main_pc = "done"

\* C1: whenever create_aggregation_mst returns Ok(tree), the tree has one
\* mini tree per CSV path and mini_tree(j) is the tree of entry_csvs[j],
\* whatever the interleaving of the tasks.
C1_OrderPreserved ==
    (Returned /\ result.kind = "Ok") =>
        /\ Len(result.tree.mini_trees) = entry_csvs_len
        /\ \A j \in 0 .. (entry_csvs_len - 1) :
              result.tree.mini_trees[j + 1] = CsvTree(j)

C1_Witness ==
    /\ Returned
    /\ result.kind = "Ok"
    /\ entry_csvs_len = 3
    /\ executor_count = 3

\* C2: when a CSV could not be parsed or a generate_tree call failed, the
\* call returns the count-mismatch error and never a tree.
C2_FailureGivesMismatch ==
    (Returned /\ (csv_failed \/ worker_failed)) =>
        result = [kind |-> "Err", msg |-> ErrMismatch]

C2_Witness ==
    /\ Returned
    /\ worker_failed
    /\ \E i \in Workers : Spawned(i) /\ coll[i].trees # <<>>
    /\ result = [kind |-> "Err", msg |-> ErrMismatch]

\* C3: for N >= 1 and P >= 1, when every CSV parses and every worker request
\* succeeds, the call does not return the count-mismatch error: P mini trees
\* reach AggregationMerkleSumTree::new.
C3_SuccessGivesTree ==
    (Returned /\ entry_csvs_len >= 1 /\ ~csv_failed /\ ~worker_failed) =>
        /\ result # [kind |-> "Err", msg |-> ErrMismatch]
        /\ Len(all_merkle_sum_tree) = entry_csvs_len

AllTasksExited ==
    \A i \in Workers :
        Spawned(i) => /\ dist[i].pc = "done"
                      /\ exec[i].pc = "done"
                      /\ coll[i].pc = "done"

\* C4: under fair scheduling every call eventually returns and every
\* distributor, executor and collector task eventually exits.
C4_EventuallyReturns == <>(Returned /\ AllTasksExited)

C4_Witness ==
    /\ Returned
    /\ AllTasksExited
    /\ cancel_token
    /\ spawned >= 2

\* C5: terminate_executors is called at most once, exactly once in a run
\* that has returned, and only when every executor task has ended (no
\* generate_tree in flight) and every collector has been joined.
C5_TerminateOnceAfterJoin ==
    /\ terminate_calls <= 1
    /\ (Returned /\ result.kind \in {"Ok", "Err"}) => terminate_calls = 1
    /\ terminate_calls >= 1 =>
          /\ spawned = actual_number_of_workers
          /\ \A i \in Workers :
                Spawned(i) => exec[i].pc = "done" /\ coll[i].pc = "done"

C5_Witness ==
    /\ terminate_calls = 1
    /\ main_pc = "terminate"
    /\ spawned >= 2
    /\ \E i \in Workers : Spawned(i) /\ coll[i].trees # <<>>

\* work has been dispatched to executor i: a batch was sent into its
\* entries channel or a generate_tree request was issued on it
WorkDispatched(i) ==
    \/ entries_ch[i] # <<>>
    \/ exec[i].pc \in {"generate", "send"}
    \/ tree_ch[i] # <<>>

K == Len(mini_trees_in)

EqualDepth == \A k \in 1 .. K : mini_trees_in[k].depth = mini_trees_in[1].depth

\* C7 (as stated): for every tree of K >= 1 mini trees of equal depth and
\* every user index u in [0, K * 2^d), generate_proof(u) returns Ok, the
\* proof carries the root of the tree and verify_proof accepts it.
C7_ProofVerifies ==
    query.op = "generate_proof" =>
        /\ query.out.kind = "Ok"
        /\ query.out.proof.root = tree_result.tree.root
        /\ query.verified = [kind |-> "Ok", value |-> TRUE]

\* C8: get_entry(u) is the entry e = u mod 2^d of mini tree j = u / 2^d,
\* that is, of the only pair (j, e) with u = j * 2^d + e and e < 2^d.
C8_GetEntry ==
    query.op = "get_entry" =>
        \E j \in 0 .. (K - 1) :
        \E e \in 0 .. (Pow2(mini_trees_in[1].depth) - 1) :
            /\ query.u = j * Pow2(mini_trees_in[1].depth) + e
            /\ query.out = [kind |-> "Ok", entry |-> mini_trees_in[j + 1].entries[e + 1]]

C8_Witness ==
    /\ query.op = "get_entry"
    /\ K = 4
    /\ mini_trees_in[1].depth = 2
    /\ query.u = 9
    /\ query.out.kind = "Ok"
    /\ query.out.entry.username = 201

RECURSIVE RootBalanceSum(_, _)
RootBalanceSum(trees, i) ==
    IF trees = <<>> THEN 0
    ELSE trees[1].root.balances[i] + RootBalanceSum(Tail(trees), i)

\* C10: given K >= 1 mini trees of equal depth, new returns the range error
\* and no tree whenever the root balances of some currency sum to
\* 2^(8 * N_BYTES) or more, and every tree it returns has all these sums
\* below that bound.
C10_RangeCheck ==
    (tree_result # Pending /\ K >= 1 /\ EqualDepth) =>
        /\ (\E i \in Currencies : RootBalanceSum(mini_trees_in, i) >= Pow2(8 * N_BYTES))
              => tree_result = [kind |-> "Err", msg |-> ErrRange]
        /\ tree_result.kind = "Ok"
              => \A i \in Currencies : RootBalanceSum(mini_trees_in, i) < Pow2(8 * N_BYTES)

C10_Witness ==
    /\ tree_result = [kind |-> "Err", msg |-> ErrRange]
    /\ K = 2
    /\ RootBalanceSum(mini_trees_in, 1) = Pow2(8 * N_BYTES)
    /\ \A k \in 1 .. K : mini_trees_in[k].root.balances[1] < Pow2(8 * N_BYTES)

\* the sum of root.balances[i] over the mini trees lo .. hi (0-based) that
\* exist
RECURSIVE DescendantSum(_, _, _, _)
DescendantSum(trees, i, lo, hi) ==
    IF lo > hi \/ lo >= Len(trees) THEN 0
    ELSE trees[lo + 1].root.balances[i] + DescendantSum(trees, i, lo + 1, hi)

\* C11: in every tree new returns, the node at index k of aggregation
\* layer l carries, in every currency, the sum of the balances of the mini
\* tree roots below it (roots k * 2^l .. (k + 1) * 2^l - 1); the root
\* carries the sum over all the mini tree roots.
C11_SumLaw ==
    tree_result.kind = "Ok" =>
        /\ \A l \in 0 .. tree_result.tree.depth :
           \A k \in 0 .. (Len(tree_result.tree.nodes[l + 1]) - 1) :
           \A i \in Currencies :
              tree_result.tree.nodes[l + 1][k + 1].balances[i] =
                  DescendantSum(mini_trees_in, i, k * Pow2(l), (k + 1) * Pow2(l) - 1)
        /\ \A i \in Currencies :
              tree_result.tree.root.balances[i] = RootBalanceSum(mini_trees_in, i)

C11_Witness ==
    /\ tree_result.kind = "Ok"
    /\ K = 4
    /\ tree_result.tree.depth = 2
    /\ mini_trees_in[1].root.balances[1] # mini_trees_in[2].root.balances[1]
    /\ tree_result.tree.nodes[2][1].balances[1] # tree_result.tree.nodes[2][2].balances[1]

\* K is a power of two
IsPow2(n) == \E m \in 0 .. n : Pow2(m) = n

\* C12: for K = 2^m mini trees of equal depth, the root hash of the tree
\* new returns is the root hash of the Merkle sum tree built directly over
\* the entries of the mini trees, concatenated in mini tree order.
C12_SameRootAsDirectMst ==
    (query.op = "compare_mst" /\ IsPow2(K)) =>
        query.root.hash = tree_result.tree.root.hash

C12_Witness ==
    /\ query.op = "compare_mst"
    /\ K = 4
    /\ mini_trees_in[1].depth = 2
    /\ mini_trees_in[1].root # mini_trees_in[4].root
    /\ query.root.hash = tree_result.tree.root.hash

\* an application-level failure: a response with a status outside 2xx or
\* with a body that is no JSON tree
ApplicationFailure(response) ==
    /\ response.kind = "response"
    /\ response.status \notin 200 .. 299 \/ response.body.type # "tree"

\* C13 (as stated): a generate_tree call whose request failed at the
\* transport level returns that error only after its fifth attempt has
\* failed; earlier failures are retried.
C13_RetriesTransportFailure ==
    (call.pc = "returned" /\ call.result = [kind |-> "Err", error |-> "transport"])
        => call.attempts = 5

C15_WorkerAnswersErrors ==
    \A k \in 1 .. Len(served) :
        /\ served[k].kind = "response"
        /\ ~served[k].parsable => served[k].status \in 400 .. 599

\* C16 (as stated): from_tree(t).to_mst() returns a tree equal to t in
\* root, node layers, depth, entries, is_sorted and cryptocurrencies.
C16_RoundTripEqual ==
    round_trip.kind = "done" =>
        round_trip.out = [kind |-> "Ok", tree |-> round_trip.tree]

\* the URL an Executor of a CloudSpawner is to carry for the entry u of
\* worker_node_url
ExpectedUrl(u) ==
    <<"h", "t", "t", "p", ":", "/", "/">> \o u.host \o <<":">>
        \o to_string(IF u.port = None THEN DEFAULT_PORT ELSE u.port)

IsCloud == spawner.kind = "Cloud"

\* C17 (as stated): a CloudSpawner with service_info makes exactly one
\* service-creation attempt however the spawn_executor calls interleave:
\* only the first call starts the creation.
C17_OneCreationAttempt ==
    (IsCloud /\ spawner.service_info) =>
        /\ service.creations <= 1
        /\ futures # <<>> => service.creations = 1

\* C18 (as stated): the service is created by the first spawn_executor
\* call only, the Executor of the first call is returned only after the
\* creation has ended, later calls reuse the service without another
\* creation, the service is removed only by terminate_executors, and a
\* spawner without service_info never attempts a creation.
C18_Lifecycle ==
    IsCloud =>
        /\ \A k \in 1 .. Len(futures) : futures[k].creator <=> (k = 1 /\ spawner.service_info)
        /\ (spawner.service_info /\ futures # <<>> /\ futures[1].pc = "done")
              => futures[1].rx # "empty"
        /\ service.state = "removed" <=> (service.terminated /\ spawner.service_info)
        /\ ~spawner.service_info => service.creations = 0 /\ service.state = "absent"

\* C19: the k-th spawn_executor call of a CloudSpawner, each call awaited
\* before the next, returns an Executor whose URL is "http://" and the
\* k-th entry of worker_node_url, with ":default_port" appended exactly
\* when the entry carries no port.
C19_UrlOfKthCall ==
    IsCloud =>
        \A k \in 1 .. Len(futures) :
            ((\A j \in 1 .. k : futures[j].sequential)
             /\ k <= Len(spawner.worker_node_url)) =>
                /\ futures[k].pc # "call_panicked"
                /\ futures[k].pc = "done" =>
                      futures[k].executor = ExpectedUrl(spawner.worker_node_url[k])

C19_Witness ==
    /\ IsCloud
    /\ Len(futures) = 2
    /\ \A k \in 1 .. 2 : futures[k].sequential /\ futures[k].pc = "done"
    /\ spawner.worker_node_url[1].port = None
    /\ spawner.worker_node_url[2].port # None
    /\ futures[1].executor = <<"h", "t", "t", "p", ":", "/", "/", "a", ":", "4", "0", "0", "0">>
    /\ futures[2].executor = <<"h", "t", "t", "p", ":", "/", "/", "a", ":", "8", "0">>

\* C20 (as stated): on every spawner the counter equals the number of
\* spawn_executor calls made so far and no two calls observe the same
\* counter value, also when a call is made before the future of an earlier
\* call has completed.
C20_CounterAtomic ==
    /\ worker_counter = Len(futures)
    /\ \A j, k \in 1 .. Len(futures) : j # k => futures[j].observed # futures[k].observed

IsMock == spawner.kind = "Mock"

\* C21 (as stated): the k-th spawn_executor call of a MockSpawner with the
\* URL list U returns an Executor at "http://U[k]" while the list lasts,
\* and afterwards an Executor of a new in-process server whose URL differs
\* from every URL of U and from the URL of every earlier in-process
\* server.
C21_MockUrls ==
    IsMock =>
        \A k \in 1 .. Len(futures) :
            /\ k <= Len(spawner.urls) =>
                  /\ futures[k].pc # "call_panicked"
                  /\ futures[k].pc = "done" =>
                        futures[k].executor = worker_url(spawner.urls[k])
            /\ (k > Len(spawner.urls) /\ futures[k].pc = "done") =>
                  /\ \A u \in 1 .. Len(spawner.urls) :
                        futures[k].executor # worker_url(spawner.urls[u])
                  /\ \A j \in 1 .. k - 1 :
                        (j > Len(spawner.urls) /\ futures[j].pc = "done") =>
                            futures[j].executor # futures[k].executor

IsLocal == spawner.kind = "Local"

\* the name p_k of the container of the k-th call (k from 0)
ContainerOf(k) == spawner.container_name \o <<"_">> \o to_string(k)

\* C22: on a LocalSpawner with the container-name prefix p the k-th
\* spawn_executor call creates the container p_k and no other container
\* is created; terminate_executors after n calls requests the forced
\* removal of p_0 .. p_(n-1), each of them once and of no other container,
\* whether or not some of the removals fail.
C22_LocalContainers ==
    IsLocal =>
        /\ service.containers \subseteq {ContainerOf(k - 1) : k \in 1 .. Len(futures)}
        /\ ~service.terminated =>
              \A k \in 1 .. Len(futures) :
                  futures[k].pc = "done" => ContainerOf(k - 1) \in service.containers
        /\ service.terminated =>
              /\ Len(service.requests) = Len(futures)
              /\ \A k \in 1 .. Len(futures) :
                    service.requests[k] =
                        [op |-> "remove_container", name |-> ContainerOf(k - 1),
                         force |-> TRUE]

\* two containers were created, the removal of the first failed and the
\* second was removed all the same
C22_Witness ==
    /\ IsLocal
    /\ service.terminated
    /\ Len(futures) = 2
    /\ \A k \in 1 .. 2 : futures[k].pc = "done"
    /\ Len(service.requests) = 2
    /\ service.containers = {ContainerOf(0)}

\* C23 (as stated): terminate_executors of a CloudSpawner sends delete
\* requests for the service and the network only when this spawner has
\* created them: without service_info, or when no spawn_executor call has
\* started the creation of the service, no request is sent.
C23_DeleteOnlyOwn ==
    IsCloud =>
        ((~spawner.service_info \/ service.creations = 0) => service.requests = <<>>)

\* the service of the compose file lacks a field that the service spec
\* needs
LacksRequiredField(file_content, service_name) ==
    \E s \in file_content.services :
        /\ s.name = service_name
        /\ \/ s.image = NoneOpt
           \/ s.ports = NoneOpt
           \/ s.deploy = NoneOpt
           \/ s.deploy[1].replicas = NoneOpt
           \/ s.deploy[1].placement = NoneOpt
           \/ s.deploy[1].placement[1].constraints = NoneOpt

\* C24 (as stated): a CloudSpawner given an empty URL list, or a compose
\* file whose service lacks a required field, reports the error at
\* construction: no spawn_executor call on it ever returns an Executor.
C24_ConfigErrorsAtConstruction ==
    IsCloud =>
        ((\/ spawner.worker_node_url = <<>>
          \/ /\ spawner.service_info
             /\ LacksRequiredField(spawner.compose[1], "mini_tree"))
            => \A k \in 1 .. Len(futures) : futures[k].pc # "done")

\* the compose file without the keys that utils.rs does not declare
WithoutUnknownFields(file_content) ==
    [file_content EXCEPT !.services = {[s EXCEPT !.extra = NoneOpt] : s \in @}]

\* C25 (as stated): get_specs_from_compose returns an error whenever the
\* requested service lacks image, ports, deploy.replicas or
\* deploy.placement.constraints; keys it does not know change nothing; on
\* success the network and the service carry the name of the requested
\* service and the network driver is "overlay" when the compose file
\* names none.
C25_ComposeSpecs ==
    compose_call.pc = "returned" =>
        LET name == compose_call.service_name
            file == compose_call.file_content
            res == compose_call.result
        IN  /\ LacksRequiredField(file, name) => res.kind = "Err"
            /\ res = get_specs_from_compose(name, WithoutUnknownFields(file))
            /\ res.kind = "Ok" =>
                  /\ res.network_options.name = name
                  /\ res.service_spec.name = name
                  /\ \A n \in file.networks[1] :
                        (n.name = name /\ n.driver = NoneOpt) =>
                            res.network_options.driver = "overlay"

\* the tree of a batch, as the worker builds it
TreeOfBatch(json_entries) == from_entries(batch_entries(json_entries))

\* a call that has returned with a batch that parses returned Ok with the
\* tree of its own batch
OwnTreeReturned ==
    \A c \in 1 .. Len(concurrent.calls) :
        (concurrent.calls[c].pc = "returned" /\ Parsable(concurrent.calls[c].json_entries))
            => /\ concurrent.calls[c].result.kind = "Ok"
               /\ concurrent.calls[c].result.tree.root
                      = TreeOfBatch(concurrent.calls[c].json_entries).root
               /\ concurrent.calls[c].result.tree.entries
                      = batch_entries(concurrent.calls[c].json_entries)

BothReturned ==
    /\ Len(concurrent.calls) = 2
    /\ \A c \in 1 .. 2 : concurrent.calls[c].pc = "returned"

\* C26: two generate_tree calls made on the same Executor and polled
\* together both return, and each returns the tree built from its own
\* batch.
C26_ConcurrentCalls == []OwnTreeReturned /\ <>BothReturned

\* both calls were in flight at once and returned different trees
C26_Witness ==
    /\ BothReturned
    /\ concurrent.overlapped
    /\ \A c \in 1 .. 2 : concurrent.calls[c].result.kind = "Ok"
    /\ concurrent.calls[1].result.tree.root # concurrent.calls[2].result.tree.root

\* C27: create_aggregation_mst(N) with P paths calls spawn_executor
\* min(N, P) times, no more while the loop runs and exactly that many once
\* it has ended (none for P = 0), and every executor it spawns has a slice
\* of at least one CSV.
C27_SpawnCount ==
    /\ spawned <= min(executor_count, entry_csvs_len)
    /\ main_pc \notin {"idle", "spawn"} => spawned = min(executor_count, entry_csvs_len)
    /\ \A i \in Workers :
          Spawned(i) =>
              calculate_task_range(i, executor_count)[1]
                  < calculate_task_range(i, executor_count)[2]

\* more workers requested than there are CSVs
C27_Witness ==
    /\ Returned
    /\ executor_count = 3
    /\ entry_csvs_len = 2
    /\ spawned = 2

\* the slices [start, end) of the executors 0 .. n - 1, in their order
Slices(n) == ToVec([k \in 1 .. n |-> calculate_task_range(k - 1, executor_count)])

\* C28: for N >= 1 and P >= 1 the slices that the spawn loop computes for
\* the executors 0 .. min(N, P) - 1 follow one another from 0 to P without
\* gap or overlap, so they are pairwise disjoint and cover [0, P) exactly,
\* and their lengths differ by at most one; the distributor of a spawned
\* executor works on its slice.
C28_Slices ==
    entry_csvs_len >= 1 =>
        /\ main_pc = "spawn" =>
              LET n == min(executor_count, entry_csvs_len)
                  slice == Slices(n)
              IN  /\ slice[1][1] = 0
                  /\ slice[n][2] = entry_csvs_len
                  /\ \A k \in 1 .. n : slice[k][1] <= slice[k][2]
                  /\ \A k \in 1 .. (n - 1) : slice[k][2] = slice[k + 1][1]
                  /\ \A j, k \in 1 .. n :
                        (slice[j][2] - slice[j][1]) - (slice[k][2] - slice[k][1]) <= 1
        /\ \A i \in Workers :
              Spawned(i) =>
                  /\ dist[i].last = calculate_task_range(i, executor_count)[2]
                  /\ dist[i].next >= calculate_task_range(i, executor_count)[1]
                  /\ dist[i].next <= dist[i].last

\* three CSVs over two executors: slices [0, 2) and [2, 3), both
\* distributors at work
C28_Witness ==
    /\ entry_csvs_len = 3
    /\ executor_count = 2
    /\ spawned = 2
    /\ dist[0].last = 2
    /\ dist[1].next = 2
    /\ dist[1].last = 3

\* the result vector when the t-th tree of collector i goes to position
\* i * (P / effective_N) + t, the collectors taken in their order
RECURSIVE PlacedByEffectiveCount(_, _)
PlacedByEffectiveCount(ordered, index) ==
    IF index >= spawned THEN ordered
    ELSE LET start == index * (entry_csvs_len
                                  \div min(executor_count, entry_csvs_len))
             trees == coll[index].trees
         IN  PlacedByEffectiveCount(
                 [k \in 0 .. (entry_csvs_len - 1) |->
                     IF k >= start /\ k - start < Len(trees)
                     THEN trees[k - start + 1] ELSE ordered[k]],
                 index + 1)

\* C29 (as stated): the result vector has length P and the t-th subtree
\* of collector i is placed at position i * (P / effective_N) + t, with
\* effective_N = min(N, P).
C29_PlacementByEffectiveCount ==
    (main_pc \in {"terminate", "done"} /\ entry_csvs_len >= 1 /\ result.kind # "panic") =>
        /\ DOMAIN ordered_tree_results = 0 .. (entry_csvs_len - 1)
        /\ ordered_tree_results
              = PlacedByEffectiveCount([k \in 0 .. (entry_csvs_len - 1) |-> None], 0)

\* C30 (as stated): the HTTP call and the send of an executor task race
\* against the cancellation token as its recv does: once the token has
\* fired, a generate_tree call that is in flight is given up, its result
\* does not go on to the send, and no tree is put on a trees channel any
\* more.
C30_AllOperationsRaceToken ==
    [][cancel_token =>
          \A i \in Workers :
              /\ exec[i].pc = "generate" => exec'[i].pc # "send"
              /\ Len(tree_ch'[i]) <= Len(tree_ch[i])]_vars

\* C31 (as stated): once the cancellation token has fired, no executor task
\* takes a batch from its entries channel to start a generate_tree request
\* and no distributor puts a further batch on an entries channel, also when
\* batches are still queued.
C31_NoNewWorkAfterCancel ==
    [][cancel_token =>
          \A i \in Workers :
              /\ exec[i].pc = "recv" => exec'[i].pc # "generate"
              /\ Len(entries_ch'[i]) <= Len(entries_ch[i])]_vars

\* C32: at every moment of a run, with or without cancellation, the vector
\* of collector i holds the subtrees of a prefix of slice i in the order of
\* the slice: the k-th tree it holds is the tree of the k-th path of the
\* slice, so none comes before the tree of an earlier path and none twice.
C32_CollectorPrefix ==
    \A i \in Workers :
        Spawned(i) =>
            LET slice == calculate_task_range(i, executor_count)
            IN  /\ Len(coll[i].trees) <= slice[2] - slice[1]
                /\ \A k \in 1 .. Len(coll[i].trees) :
                      coll[i].trees[k] = slice[1] + (k - 1)

\* a run cancelled by a failed request of executor 1 in which collector 0
\* holds both trees of its slice [0, 2)
C32_Witness ==
    /\ cancel_token
    /\ worker_failed
    /\ entry_csvs_len = 3
    /\ executor_count = 2
    /\ coll[0].trees = <<0, 1>>
    /\ coll[1].trees = <<>>
    /\ exec[1].pc = "done"

\* the mini tree and the entry of the user of the last generate_proof call
ProofMiniTree == query.u \div Pow2(mini_trees_in[1].depth)

ProofEntry == query.u % Pow2(mini_trees_in[1].depth)

\* the node of the aggregation tree beside the path of mini tree j at a level
SiblingAt(j, level) ==
    LET current_index == j \div Pow2(level)
    IN  IF current_index % 2 = 0 THEN current_index + 1 ELSE current_index - 1

\* the levels l of [from, D) whose sibling index is in range, in ascending order
RECURSIVE LevelsWithSibling(_, _, _)
LevelsWithSibling(t, j, from) ==
    IF from >= t.depth THEN <<>>
    ELSE (IF SiblingAt(j, from) < Len(t.nodes[from + 1]) THEN <<from>> ELSE <<>>)
         \o LevelsWithSibling(t, j, from + 1)

\* C33: a proof of a user of mini tree j in a tree of depth D is the proof
\* of the mini tree extended with exactly D path indices, bit l of j at
\* level l, and with the preimage of the root of the sibling mini tree
\* followed by the preimage of the sibling node of each level l in [1, D)
\* whose sibling index is in range, in ascending order of the levels, and
\* with nothing for a level whose sibling is out of range.
C33_ProofExtension ==
    (query.op = "generate_proof" /\ query.out.kind = "Ok") =>
        LET t == tree_result.tree
            j == ProofMiniTree
            mini == mini_generate_proof(mini_trees_in[j + 1], ProofEntry).proof
            proof == query.out.proof
            n_idx == Len(mini.path_indices)
            n_pre == Len(mini.sibling_middle_node_hash_preimages)
            ext_idx == SubSeq(proof.path_indices, n_idx + 1, Len(proof.path_indices))
            ext_pre == SubSeq(proof.sibling_middle_node_hash_preimages, n_pre + 1,
                              Len(proof.sibling_middle_node_hash_preimages))
            levels == LevelsWithSibling(t, j, 1)
        IN  /\ SubSeq(proof.path_indices, 1, n_idx) = mini.path_indices
            /\ SubSeq(proof.sibling_middle_node_hash_preimages, 1, n_pre)
                  = mini.sibling_middle_node_hash_preimages
            /\ Len(ext_idx) = t.depth
            /\ \A l \in 0 .. (t.depth - 1) : ext_idx[l + 1] = (j \div Pow2(l)) % 2
            /\ Len(ext_pre) = 1 + Len(levels)
            /\ middle_node_from_preimage(ext_pre[1])
                  = mini_trees_in[SiblingAt(j, 0) + 1].root
            /\ \A n \in 1 .. Len(levels) :
                  middle_node_from_preimage(ext_pre[n + 1])
                      = t.nodes[levels[n] + 1][SiblingAt(j, levels[n]) + 1]

\* six mini trees, a user of mini tree 4: depth 3, no sibling at level 1
\* (node 3 of three nodes), a sibling at level 2
C33_Witness ==
    /\ query.op = "generate_proof"
    /\ query.out.kind = "Ok"
    /\ K = 6
    /\ ProofMiniTree = 4
    /\ tree_result.tree.depth = 3
    /\ LevelsWithSibling(tree_result.tree, 4, 1) = <<2>>

\* C34: every tree that AggregationMerkleSumTree::new returns has mini
\* trees of one depth; given mini trees of differing depths new returns
\* no tree (and no error value either: the call aborts).
C34_OneDepth ==
    /\ tree_result.kind = "Ok" =>
          /\ tree_result.tree.mini_trees = mini_trees_in
          /\ \A k \in 1 .. Len(tree_result.tree.mini_trees) :
                tree_result.tree.mini_trees[k].depth
                    = tree_result.tree.mini_trees[1].depth
    /\ (tree_result # Pending /\ ~EqualDepth) => tree_result.kind = "panic"

\* new was given three mini trees of depth 1 and a fourth of depth 2
C34_Witness ==
    /\ K = 4
    /\ mini_trees_in[1].depth = 1
    /\ mini_trees_in[4].depth = 2
    /\ tree_result.kind = "panic"

\* the batches executor task i has taken from its entries channel, and the
\* trees it has put on its trees channel
BatchesTaken(i) ==
    dist[i].next - calculate_task_range(i, executor_count)[1] - Len(entries_ch[i])

TreesSent(i) == Len(tree_ch[i]) + Len(coll[i].trees)

RequestsInFlight == {i \in Workers : exec[i].pc = "generate"}

\* C35: an executor task has at most one generate_tree request in flight:
\* it has taken at most one batch more than it has sent trees, it is
\* waiting for a batch only when the tree of every batch it took has been
\* sent, and the requests in flight never outnumber the spawned executors.
C35_OneRequestPerExecutor ==
    /\ \A i \in Workers :
          Spawned(i) =>
              /\ BatchesTaken(i) - TreesSent(i) \in {0, 1}
              /\ exec[i].pc = "recv" => BatchesTaken(i) = TreesSent(i)
              /\ exec[i].pc \in {"generate", "send"} =>
                    /\ BatchesTaken(i) = TreesSent(i) + 1
                    /\ exec[i].cur
                          = calculate_task_range(i, executor_count)[1] + TreesSent(i)
    /\ RequestsInFlight \subseteq {i \in Workers : Spawned(i)}
    /\ Cardinality(RequestsInFlight) <= spawned

\* both executors of a run have a request in flight, executor 0 for the
\* second batch of its slice after the tree of the first was sent
C35_Witness ==
    /\ entry_csvs_len = 3
    /\ executor_count = 2
    /\ spawned = 2
    /\ RequestsInFlight = {0, 1}
    /\ BatchesTaken(0) = 2
    /\ TreesSent(0) = 1

\* C36: for N >= 1 and P >= 1 every write of the placement loop is at an
\* index below P, for the trees the collectors hold and for any number of
\* trees up to the length of the slice, whatever P % N and also for N > P.
C36_PlacementInBounds ==
    (executor_count >= 1 /\ entry_csvs_len >= 1) =>
        /\ \A index \in 0 .. (min(executor_count, entry_csvs_len) - 1) :
              LET slice == calculate_task_range(index, executor_count)
              IN  \A t \in 0 .. (slice[2] - slice[1] - 1) :
                      result_start(index) + t < entry_csvs_len
        /\ \A index \in Workers :
              Spawned(index) =>
                  \A t \in 0 .. (Len(coll[index].trees) - 1) :
                      result_start(index) + t < entry_csvs_len
        /\ ~PlaceOutOfBounds
        /\ result.kind # "panic"

\* three CSVs over two executors (P % N = 1): both collectors returned
\* every tree of their slices and the placement loop has run
C36_Witness ==
    /\ main_pc = "terminate"
    /\ entry_csvs_len = 3
    /\ executor_count = 2
    /\ coll[0].trees = <<0, 1>>
    /\ coll[1].trees = <<2>>
    /\ DOMAIN ordered_tree_results = 0 .. 2

\* C37 (as stated): terminate_executors is called on every exit path of
\* create_aggregation_mst that follows a successful spawn_executor, also
\* when a later spawn_executor fails.
C37_TerminateAfterFailedSpawn ==
    (Returned /\ spawned >= 1) => terminate_calls = 1

\* C38: with no CSV path and N >= 1 no executor is spawned,
\* terminate_executors is still called once, and the call returns the
\* error "Empty mini tree inputs" of AggregationMerkleSumTree::new, not a
\* tree and not the count-mismatch error.
C38_EmptyInput ==
    (entry_csvs_len = 0 /\ executor_count >= 1) =>
        /\ spawned = 0
        /\ \A i \in Workers : exec[i].pc = "none" /\ dist[i].pc = "none"
        /\ terminate_calls <= 1
        /\ Returned =>
              /\ terminate_calls = 1
              /\ result = [kind |-> "Err", msg |-> ErrEmpty]

C38_Witness ==
    /\ Returned
    /\ entry_csvs_len = 0
    /\ executor_count = 2
    /\ terminate_calls = 1
    /\ result = [kind |-> "Err", msg |-> ErrEmpty]

\* C39 (as stated): called with executor_count 0, create_aggregation_mst
\* spawns no executor and returns an error value; it does not abort.
C39_ZeroWorkersGivesError ==
    executor_count = 0 =>
        /\ spawned = 0
        /\ Returned => result.kind = "Err"

\* the calls of the Executor whose request is under way
CallsInFlight ==
    {c \in 1 .. Len(concurrent.calls) : concurrent.calls[c].pc \in {"await", "receive"}}

\* C40 (as stated): in the Executor that tracks its status, status is Busy
\* exactly while one of its generate_tree calls is in flight and Idle once
\* the call has returned, with a tree or with an error; at most one request
\* of the Executor is in flight and the lock is held only by a call in
\* flight.
C40_StatusTracksCalls ==
    concurrent.locking =>
        /\ Cardinality(CallsInFlight) <= 1
        /\ concurrent.holder # 0 <=> CallsInFlight # {}
        /\ concurrent.holder # 0 => CallsInFlight = {concurrent.holder}
        /\ concurrent.status = "Busy" <=> CallsInFlight # {}
====
